---------------------------- MODULE Spec2Model ----------------------------
(***************************************************************************)
(* Model of the I2C sensor drivers of iot-kit: sensor/SHT31.py,            *)
(* sensor/SHT31_modified.py and sensor/VL6180.py.                          *)
(*                                                                         *)
(* The smbus2 transport is an external collaborator.  It is modelled as a  *)
(* scripted bus: the k-th call of write_i2c_block_data fails when the      *)
(* script names a fault for k, and the j-th read call (read_i2c_block_data *)
(* for the SHT31, read_byte for the VL6180X) answers with the j-th entry   *)
(* of the script, a value or a fault.  The counters of the script persist  *)
(* from one driver call to the next.  The byte transfers read_byte_data    *)
(* and write_byte_data, used by SHT31.read and SHT31.write only, are not   *)
(* scripted: their outcome is an input of the call and they leave the      *)
(* counters alone.                                                         *)
(*                                                                         *)
(* Every driver method is an operator that threads a call context          *)
(* [nw, nr, log] through the bus calls in program order; log is the trace  *)
(* of bus transactions and sleeps the method performed.                    *)
(*                                                                         *)
(* An instance built with test_mode=True takes the "if self._test_mode"    *)
(* branch of every method: it has no bus (self._bus is None) and its mock  *)
(* values come from random.uniform, a choice among sample values.          *)
(*                                                                         *)
(* Units: sleep() durations are logged in milliseconds.  Python floats are *)
(* modelled as exact rationals <<numerator, denominator>> in lowest terms: *)
(* rounding of IEEE doubles is not modelled.                               *)
(***************************************************************************)
EXTENDS Integers, Sequences, FiniteSets, TLC

VARIABLES
    dev,    \* which driver the scripted bus is attached to
    bus,    \* the transport script: [wfault, rd]
    pos,    \* transport counters: [nw, nr] calls consumed so far
    vl,     \* the VL6180X instance: "absent" or "ready"
    last,   \* outcome of the most recent driver call
    test_mode,  \* self._test_mode of the instance
    calls,  \* number of driver calls made so far
    dbg     \* the run of debug(): where it is and how it ended

vars == <<dev, bus, pos, vl, last, test_mode, calls, dbg>>

---------------------------------------------------------------------------
(* Program constants                                                       *)

SHT31_ADDRESS == 68
COMMAND_MEAS_CLKST == 44
COMMAND_MEAS_HIGHREP == <<6>>
COMMAND_MEAS_MEDREP == <<16>>
SHT31_DATA_REGISTER == 0
SHT31_DATA_LENGTH == 6
max_retries == 3

VL6180X_ADDRESS == 41
COMMAND_SYSTEM_FRESH_OUT_OF_RESET == 22
COMMAND_SYSRANGE_START == 24
COMMAND_RESULT_RANGE_VAL == 98
COMMAND_SYSTEM_INTERRUPT_CLEAR == 21
COMMAND_SYSALS_START == 56
COMMAND_RESULT_ALS_VAL == 80

Byte == 0..255

\* OSError / TimeoutError as raised by smbus2; both are caught by
\* "except (TimeoutError, OSError)".
NoError == "none"
Errors == {"OSError", "TimeoutError"}

\* exceptions that "except (TimeoutError, OSError)" does not catch: the
\* IndexError of data[i] on a short block, and an error of another class
\* raised by the bus
IndexError == "IndexError"
OtherErrors == {"ValueError"}

---------------------------------------------------------------------------
(* Exact rational arithmetic standing for Python float arithmetic          *)

Abs(x) == IF x < 0 THEN -x ELSE x

RECURSIVE GCD(_, _)
GCD(a, b) == IF b = 0 THEN a ELSE GCD(b, a % b)

Rat(n, d) ==
    LET g == GCD(Abs(n), Abs(d))
        s == IF d < 0 THEN -1 ELSE 1
    IN  <<(s * n) \div g, (s * d) \div g>>

RInt(n) == <<n, 1>>
RMul(a, b) == Rat(a[1] * b[1], a[2] * b[2])
RDiv(a, b) == Rat(a[1] * b[2], a[2] * b[1])
RAdd(a, b) == Rat(a[1] * b[2] + b[1] * a[2], a[2] * b[2])

\* a < b, comparing integer parts first so that no product leaves 32 bits
RLess(a, b) ==
    LET qa == a[1] \div a[2]
        qb == b[1] \div b[2]
    IN  \/ qa < qb
        \/ /\ qa = qb
           /\ (a[1] % a[2]) * b[2] < (b[1] % b[2]) * a[2]

RSub(a, b) == RAdd(a, RMul(RInt(-1), b))

\* a <= b
RLeq(a, b) == ~RLess(b, a)

\* lo <= x <= hi
InRange(x, lo, hi) == RLeq(lo, x) /\ RLeq(x, hi)

---------------------------------------------------------------------------
(* The scripted transport and time.sleep                                   *)

NewCall(p) == [nw |-> p.nw, nr |-> p.nr, log |-> <<>>]

sleep(st, ms) ==
    [st EXCEPT !.log = Append(@, [op |-> "sleep", ms |-> ms])]

\* smbus2.SMBus.write_i2c_block_data(addr, register, data)
write_i2c_block_data(b, st, addr, register, data) ==
    LET k == st.nw + 1
        e == IF k \in DOMAIN b.wfault THEN b.wfault[k] ELSE NoError
    IN  [st  |-> [st EXCEPT !.nw = k,
                           !.log = Append(@, [op |-> "write_i2c_block_data",
                                              addr |-> addr, reg |-> register,
                                              data |-> data, err |-> e])],
         err |-> e,
         val |-> 0]

\* smbus2.SMBus.read_i2c_block_data(addr, register, length)
read_i2c_block_data(b, st, addr, register, length) ==
    LET j == st.nr + 1
        r == b.rd[j]
    IN  [st  |-> [st EXCEPT !.nr = j,
                           !.log = Append(@, [op |-> "read_i2c_block_data",
                                              addr |-> addr, reg |-> register,
                                              len |-> length, err |-> r.err])],
         err |-> r.err,
         val |-> r.val]

\* smbus2.SMBus.read_byte(addr)
read_byte(b, st, addr) ==
    LET j == st.nr + 1
        r == b.rd[j]
    IN  [st  |-> [st EXCEPT !.nr = j,
                           !.log = Append(@, [op |-> "read_byte",
                                              addr |-> addr, err |-> r.err])],
         err |-> r.err,
         val |-> r.val]

\* smbus2.SMBus.read_byte_data(addr, register); a is what the bus answers
read_byte_data(st, addr, register, a) ==
    [st  |-> [st EXCEPT !.log = Append(@, [op |-> "read_byte_data",
                                           addr |-> addr, reg |-> register,
                                           err |-> a.err])],
     err |-> a.err,
     val |-> a.val]

\* smbus2.SMBus.write_byte_data(addr, register, value); e is the error the
\* bus raises, or NoError
write_byte_data(st, addr, register, value, e) ==
    [st  |-> [st EXCEPT !.log = Append(@, [op |-> "write_byte_data",
                                           addr |-> addr, reg |-> register,
                                           value |-> value, err |-> e])],
     err |-> e,
     val |-> 0]

\* Ctrl-C during a driver call whose outcome would be res.  SIGINT is
\* turned into KeyboardInterrupt when the bus transaction or sleep during
\* which it arrived has ended; no except clause of the drivers catches it
\* (they name TimeoutError and OSError), so the call ends there, with the
\* first i steps of its trace (i = 0: before its first step).  The attempt
\* it was in is one more than the failures caught before.  After a failure
\* that the retry loop caught, Ctrl-C may also arrive when the loop has
\* moved on: "for attempt in range(max_retries)" has advanced and the
\* driver logs its retry line, before the wait (SHT31.py:71-72,
\* VL6180.py:43-44); the trace is the same and the attempt is the next one.
IsScriptedWrite(ev) == ev.op = "write_i2c_block_data"

IsScriptedRead(ev) == ev.op \in {"read_i2c_block_data", "read_byte"}

IsFailure(ev) == ev.op # "sleep" /\ ev.err # NoError

KeyboardInterrupt == "KeyboardInterrupt"

Interrupted(res, i) ==
    LET pre  == SubSeq(res.log, 1, i)
        rest == SubSeq(res.log, i + 1, Len(res.log))
    IN  [outcome |-> "raise", value |-> <<>>, err |-> KeyboardInterrupt,
         attempts |-> IF res.attempts = 0 THEN 0
                      ELSE Len(SelectSeq(SubSeq(res.log, 1, i - 1),
                                         IsFailure)) + 1,
         log |-> pre,
         nw |-> res.nw - Len(SelectSeq(rest, IsScriptedWrite)),
         nr |-> res.nr - Len(SelectSeq(rest, IsScriptedRead))]

\* the outcomes of a call during which Ctrl-C may arrive; a failure that
\* is not the last step of a retrying call was caught and retried
WithInterrupts(res) ==
    {res}
      \cup { Interrupted(res, i) : i \in 0..Len(res.log) }
      \cup { [Interrupted(res, i) EXCEPT !.attempts = @ + 1] :
                 i \in { j \in 1..(Len(res.log) - 1) :
                            res.attempts > 0 /\ IsFailure(res.log[j]) } }

---------------------------------------------------------------------------
(* SHT31.py                                                                *)

\* SHT31.read (hardware mode): read_byte_data(...) & 0xFF
SHT31_read(st, register, a) ==
    LET x == read_byte_data(st, SHT31_ADDRESS, register, a)
    IN  IF x.err # NoError THEN x ELSE [x EXCEPT !.val = x.val % 256]

\* SHT31.write (hardware mode): value = value & 0xFF, then write_byte_data
SHT31_write(st, register, value, e) ==
    write_byte_data(st, SHT31_ADDRESS, register, value % 256, e)

\* SHT31.write_list (hardware mode)
SHT31_write_list(b, st, register, data) ==
    write_i2c_block_data(b, st, SHT31_ADDRESS, register, data)

\* SHT31.read_list (hardware mode)
SHT31_read_list(b, st, register, length) ==
    read_i2c_block_data(b, st, SHT31_ADDRESS, register, length)

\* mutant: divides by 2^16
SHT31_temperature_65536(data) ==
    RAdd(RInt(-45), RDiv(RInt(175 * (data[1] * 256 + data[2])), RInt(65536)))

\* temperature = -45 + (175 * (data[0] * 256 + data[1]) / 65535.0)
SHT31_temperature(data) ==
    RAdd(RInt(-45), RDiv(RInt(175 * (data[1] * 256 + data[2])), RInt(65535)))

\* mutant: the humidity word is taken one byte early (data[2], data[3])
SHT31_humidity_shifted(data) ==
    RDiv(RInt(100 * (data[3] * 256 + data[4])), RInt(65535))

\* mutant: the low byte of the humidity word is the checksum byte data[5]
SHT31_humidity_crc(data) ==
    RDiv(RInt(100 * (data[4] * 256 + data[6])), RInt(65535))

\* humidity = 100 * (data[3] * 256 + data[4]) / 65535.0
SHT31_humidity(data) ==
    RDiv(RInt(100 * (data[4] * 256 + data[5])), RInt(65535))

Returned(st, attempt, value) ==
    [outcome |-> "return", value |-> value, err |-> NoError,
     attempts |-> attempt + 1, log |-> st.log, nw |-> st.nw, nr |-> st.nr]

Raised(st, attempt, e) ==
    [outcome |-> "raise", value |-> <<>>, err |-> e,
     attempts |-> attempt + 1, log |-> st.log, nw |-> st.nw, nr |-> st.nr]

RECURSIVE SHT31_attempt(_, _, _)

\* mutant: gives up one attempt early
SHT31_except_early(b, st, attempt, e) ==
    IF attempt = max_retries - 2
    THEN Raised(st, attempt, e)
    ELSE SHT31_attempt(b, st, attempt + 1)

\* mutant: raises a new OSError in place of the error caught
SHT31_except_wrapped(b, st, attempt, e) ==
    IF attempt = max_retries - 1
    THEN Raised(st, attempt, "OSError")
    ELSE SHT31_attempt(b, st, attempt + 1)

\* mutant: "except Exception", every error is retried
SHT31_except_any(b, st, attempt, e) ==
    IF attempt = max_retries - 1
    THEN Raised(st, attempt, e)
    ELSE SHT31_attempt(b, st, attempt + 1)

\* except (TimeoutError, OSError) as e: re-raise on the last attempt,
\* otherwise go on with the next iteration of the for loop; an exception
\* of another class is not caught and leaves the method at once
SHT31_except(b, st, attempt, e) ==
    IF e \notin Errors
    THEN Raised(st, attempt, e)
    ELSE IF attempt = max_retries - 1
         THEN Raised(st, attempt, e)
         ELSE SHT31_attempt(b, st, attempt + 1)

\* mutant: the settle sleep of a retry is as short as the first one
SHT31_attempt_flat_settle(b, st, attempt) ==
    LET st0 == IF attempt > 0 THEN sleep(st, 200) ELSE st
        w   == SHT31_write_list(b, st0, COMMAND_MEAS_CLKST, COMMAND_MEAS_MEDREP)
    IN  IF w.err # NoError
        THEN SHT31_except(b, w.st, attempt, w.err)
        ELSE LET r == SHT31_read_list(b, sleep(w.st, 500), SHT31_DATA_REGISTER,
                                      SHT31_DATA_LENGTH)
             IN  IF r.err # NoError
                 THEN SHT31_except(b, r.st, attempt, r.err)
                 ELSE Returned(r.st, attempt,
                               <<SHT31_temperature(r.val),
                                 SHT31_humidity(r.val)>>)

\* mutant: the wait before a retry grows with the attempt number
SHT31_attempt_backoff(b, st, attempt) ==
    LET st0 == IF attempt > 0 THEN sleep(st, 200 * attempt) ELSE st
        w   == SHT31_write_list(b, st0, COMMAND_MEAS_CLKST, COMMAND_MEAS_MEDREP)
    IN  IF w.err # NoError
        THEN SHT31_except(b, w.st, attempt, w.err)
        ELSE LET st1 == sleep(w.st, IF attempt > 0 THEN 1000 ELSE 500)
                 r   == SHT31_read_list(b, st1, SHT31_DATA_REGISTER,
                                        SHT31_DATA_LENGTH)
             IN  IF r.err # NoError
                 THEN SHT31_except(b, r.st, attempt, r.err)
                 ELSE Returned(r.st, attempt,
                               <<SHT31_temperature(r.val),
                                 SHT31_humidity(r.val)>>)

\* body of "for attempt in range(max_retries)"; data[0], data[1], data[3]
\* and data[4] are read, so a block of fewer than 5 bytes raises IndexError
\* inside the try
SHT31_attempt(b, st, attempt) ==
    LET st0 == IF attempt > 0 THEN sleep(st, 200) ELSE st
        w   == SHT31_write_list(b, st0, COMMAND_MEAS_CLKST, COMMAND_MEAS_MEDREP)
    IN  IF w.err # NoError
        THEN SHT31_except(b, w.st, attempt, w.err)
        ELSE LET st1 == sleep(w.st, IF attempt > 0 THEN 1000 ELSE 500)
                 r   == SHT31_read_list(b, st1, SHT31_DATA_REGISTER,
                                        SHT31_DATA_LENGTH)
             IN  IF r.err # NoError
                 THEN SHT31_except(b, r.st, attempt, r.err)
                 ELSE IF Len(r.val) < 5
                      THEN SHT31_except(b, r.st, attempt, IndexError)
                      ELSE Returned(r.st, attempt,
                                    <<SHT31_temperature(r.val),
                                      SHT31_humidity(r.val)>>)

\* mutant: the attempt counter lives on the instance, so a call that follows
\* an exhausted one resumes at the last attempt
SHT31_get_temperature_humidity_resumed(b, p) ==
    SHT31_attempt(b, NewCall(p),
                  IF p.nw >= max_retries THEN max_retries - 1 ELSE 0)

\* mutant: once a block was read, later calls decode it again and leave
\* the bus alone
SHT31_get_temperature_humidity_cached(b, p) ==
    IF p.nr > 0 /\ b.rd[p.nr].err = NoError
    THEN Returned(NewCall(p), 0, <<SHT31_temperature(b.rd[p.nr].val),
                                   SHT31_humidity(b.rd[p.nr].val)>>)
    ELSE SHT31_attempt(b, NewCall(p), 0)

\* SHT31.get_temperature_humidity (hardware mode)
SHT31_get_temperature_humidity(b, p) == SHT31_attempt(b, NewCall(p), 0)

\* SHT31.get_temperature: "temperature, humidity =
\* self.get_temperature_humidity(); return temperature", applied to the
\* outcome res of that call; an exception passes through
SHT31_get_temperature(res) ==
    IF res.outcome = "return" THEN [res EXCEPT !.value = res.value[1]] ELSE res

\* SHT31.get_humidity: the same, returning humidity
SHT31_get_humidity(res) ==
    IF res.outcome = "return" THEN [res EXCEPT !.value = res.value[2]] ELSE res

---------------------------------------------------------------------------
(* SHT31_modified.py                                                       *)

\* mutant: the modified driver waits 0.2 s for the measurement
SHT31mod_get_temperature_humidity_short_settle(b, p) ==
    LET w == write_i2c_block_data(b, NewCall(p), SHT31_ADDRESS,
                                  COMMAND_MEAS_CLKST, COMMAND_MEAS_HIGHREP)
    IN  IF w.err # NoError
        THEN Raised(w.st, 0, w.err)
        ELSE LET r == read_i2c_block_data(b, sleep(w.st, 200), SHT31_ADDRESS,
                                          SHT31_DATA_REGISTER, SHT31_DATA_LENGTH)
             IN  IF r.err # NoError
                 THEN Raised(r.st, 0, r.err)
                 ELSE IF Len(r.val) < 5
                      THEN Raised(r.st, 0, IndexError)
                      ELSE Returned(r.st, 0,
                                    <<SHT31_temperature(r.val),
                                      SHT31_humidity(r.val)>>)

\* SHT31.get_temperature_humidity of SHT31_modified.py (hardware mode):
\* one attempt, the error is logged and re-raised
SHT31mod_get_temperature_humidity(b, p) ==
    LET w == write_i2c_block_data(b, NewCall(p), SHT31_ADDRESS,
                                  COMMAND_MEAS_CLKST, COMMAND_MEAS_HIGHREP)
    IN  IF w.err # NoError
        THEN Raised(w.st, 0, w.err)
        ELSE LET r == read_i2c_block_data(b, sleep(w.st, 500), SHT31_ADDRESS,
                                          SHT31_DATA_REGISTER, SHT31_DATA_LENGTH)
             IN  IF r.err # NoError
                 THEN Raised(r.st, 0, r.err)
                 ELSE IF Len(r.val) < 5
                      THEN Raised(r.st, 0, IndexError)
                      ELSE Returned(r.st, 0,
                                    <<SHT31_temperature(r.val),
                                      SHT31_humidity(r.val)>>)

---------------------------------------------------------------------------
(* VL6180.py: register access                                              *)

\* mutant: the high address byte is taken from the low bits
HighByte_low(x) == x % 256

\* (register16 >> 8) & 0xFF and register16 & 0xFF
HighByte(x) == (x \div 256) % 256
LowByte(x) == x % 256

\* VL6180X.read (hardware mode): block write of the address, then read_byte
read(b, st, register16) ==
    LET a1 == HighByte(register16)
        a0 == LowByte(register16)
        w  == write_i2c_block_data(b, st, VL6180X_ADDRESS, a1, <<a0>>)
    IN  IF w.err # NoError THEN w ELSE read_byte(b, w.st, VL6180X_ADDRESS)

\* mutant: takes the first byte read as the low byte
read16_low_first(b, st, register16) ==
    LET a1 == HighByte(register16)
        a0 == LowByte(register16)
        w  == write_i2c_block_data(b, st, VL6180X_ADDRESS, a1, <<a0>>)
    IN  IF w.err # NoError THEN w
        ELSE LET l == read_byte(b, w.st, VL6180X_ADDRESS)
             IN  IF l.err # NoError THEN l
                 ELSE LET h == read_byte(b, l.st, VL6180X_ADDRESS)
                      IN  IF h.err # NoError THEN h
                          ELSE [h EXCEPT !.val = h.val * 256 + LowByte(l.val)]

\* VL6180X.read16 (hardware mode): (data16h << 8) | (data16l & 0xFF)
read16(b, st, register16) ==
    LET a1 == HighByte(register16)
        a0 == LowByte(register16)
        w  == write_i2c_block_data(b, st, VL6180X_ADDRESS, a1, <<a0>>)
    IN  IF w.err # NoError THEN w
        ELSE LET h == read_byte(b, w.st, VL6180X_ADDRESS)
             IN  IF h.err # NoError THEN h
                 ELSE LET l == read_byte(b, h.st, VL6180X_ADDRESS)
                      IN  IF l.err # NoError THEN l
                          ELSE [l EXCEPT !.val = h.val * 256 + LowByte(l.val)]

\* VL6180X.write_byte (hardware mode)
write_byte(b, st, register16, data) ==
    write_i2c_block_data(b, st, VL6180X_ADDRESS, HighByte(register16),
                         <<LowByte(register16), LowByte(data)>>)

\* mutant: sends the low data byte first
write_byte16_low_first(b, st, register16, data16) ==
    write_i2c_block_data(b, st, VL6180X_ADDRESS, HighByte(register16),
                         <<LowByte(register16), LowByte(data16),
                           HighByte(data16)>>)

\* VL6180X.write_byte16 (hardware mode)
write_byte16(b, st, register16, data16) ==
    write_i2c_block_data(b, st, VL6180X_ADDRESS, HighByte(register16),
                         <<LowByte(register16), HighByte(data16),
                           LowByte(data16)>>)

---------------------------------------------------------------------------
(* VL6180.py: VL6180X.__init__ (hardware mode)                             *)

W8(register16, data) == [wide |-> FALSE, reg |-> register16, data |-> data]
W16(register16, data) == [wide |-> TRUE, reg |-> register16, data |-> data]

\* the private registers written when the device reads fresh out of reset
TuningWrites ==
    << W8(519, 1),   W8(520, 1),   W8(150, 0),   W8(151, 253), W8(227, 0),
       W8(228, 4),   W8(229, 2),   W8(230, 1),   W8(231, 3),   W8(245, 2),
       W8(217, 5),   W8(219, 206), W8(220, 3),   W8(221, 248), W8(159, 0),
       W8(163, 60),  W8(183, 0),   W8(187, 60),  W8(178, 9),   W8(202, 9),
       W8(408, 1),   W8(432, 23),  W8(429, 0),   W8(255, 5),   W8(256, 5),
       W8(409, 5),   W8(422, 27),  W8(428, 62),  W8(423, 31),  W8(48, 0) >>

\* mutant: the fresh-out-of-reset flag is cleared inside the retry loop
PublicWrites_clearing ==
    << W8(17, 16), W8(266, 48), W8(63, 70), W8(49, 255), W8(22, 0) >>

\* the public registers written inside the retry loop
PublicWrites ==
    << W8(17, 16), W8(266, 48), W8(63, 70), W8(49, 255) >>

\* the writes after the retry loop
PostLoopWrites ==
    << W8(64, 99),  W8(46, 1),   W8(27, 9),    W8(62, 49),
       W8(20, 36),  W8(22, 0),   W8(28, 50),   W8(45, 17),
       W16(34, 123), W16(64, 100), W8(63, 32), W8(288, 1) >>

\* one statement of the initialization sequence
VL6180X_write(b, st, w) ==
    IF w.wide THEN write_byte16(b, st, w.reg, w.data)
              ELSE write_byte(b, st, w.reg, w.data)

\* a straight-line block of writes: runs prog[i..] in order and stops at
\* the first write that raises
RECURSIVE VL6180X_writes(_, _, _, _)
VL6180X_writes(b, st, prog, i) ==
    IF i > Len(prog)
    THEN [st |-> st, err |-> NoError, val |-> 0]
    ELSE LET w == VL6180X_write(b, st, prog[i])
         IN  IF w.err # NoError THEN w
             ELSE VL6180X_writes(b, w.st, prog, i + 1)

\* lines 107-135: the code after the for loop, outside any try
VL6180X_init_post(b, st, attempt) ==
    LET y == VL6180X_writes(b, st, PostLoopWrites, 1)
    IN  IF y.err # NoError
        THEN Raised(y.st, attempt, y.err)
        ELSE Returned(y.st, attempt, <<>>)

RECURSIVE VL6180X_init_attempt(_, _, _)

\* mutant: the last failure is logged but not re-raised, so the loop ends
\* and the code after it runs
VL6180X_init_except_swallowed(b, st, attempt, e) ==
    IF attempt = max_retries - 1
    THEN VL6180X_init_post(b, st, attempt)
    ELSE VL6180X_init_attempt(b, st, attempt + 1)

\* except (TimeoutError, OSError) as e: re-raise on the last attempt,
\* otherwise go on with the next iteration of the for loop; an exception
\* of another class is not caught and leaves __init__ at once
VL6180X_init_except(b, st, attempt, e) ==
    IF e \notin Errors
    THEN Raised(st, attempt, e)
    ELSE IF attempt = max_retries - 1
         THEN Raised(st, attempt, e)
         ELSE VL6180X_init_attempt(b, st, attempt + 1)

\* mutant: the tuning registers are written whatever the reset check reads
VL6180X_init_attempt_tuning_always(b, st, attempt) ==
    LET st0 == IF attempt > 0 THEN sleep(st, 500) ELSE st
        r   == read(b, st0, COMMAND_SYSTEM_FRESH_OUT_OF_RESET)
    IN  IF r.err # NoError
        THEN VL6180X_init_except(b, r.st, attempt, r.err)
        ELSE LET x == VL6180X_writes(b, r.st, TuningWrites \o PublicWrites, 1)
             IN  IF x.err # NoError
                 THEN VL6180X_init_except(b, x.st, attempt, x.err)
                 ELSE VL6180X_init_post(b, x.st, attempt)

\* body of "for attempt in range(max_retries)"; break leads to the code
\* after the loop
VL6180X_init_attempt(b, st, attempt) ==
    LET st0 == IF attempt > 0 THEN sleep(st, 500) ELSE st
        r   == read(b, st0, COMMAND_SYSTEM_FRESH_OUT_OF_RESET)
    IN  IF r.err # NoError
        THEN VL6180X_init_except(b, r.st, attempt, r.err)
        ELSE LET prog == (IF r.val = 1 THEN TuningWrites ELSE <<>>)
                             \o PublicWrites
                 x    == VL6180X_writes(b, r.st, prog, 1)
             IN  IF x.err # NoError
                 THEN VL6180X_init_except(b, x.st, attempt, x.err)
                 ELSE VL6180X_init_post(b, x.st, attempt)

VL6180X_init(b, p) == VL6180X_init_attempt(b, NewCall(p), 0)

---------------------------------------------------------------------------
(* VL6180.py: measurements (hardware mode)                                 *)

\* mutant: the interrupt is cleared before the result is read
get_distance_clear_first(b, p) ==
    LET w == write_byte(b, NewCall(p), COMMAND_SYSRANGE_START, 1)
    IN  IF w.err # NoError THEN Raised(w.st, 0, w.err)
        ELSE LET c == write_byte(b, sleep(w.st, 100),
                                 COMMAND_SYSTEM_INTERRUPT_CLEAR, 7)
             IN  IF c.err # NoError THEN Raised(c.st, 0, c.err)
                 ELSE LET r == read(b, c.st, COMMAND_RESULT_RANGE_VAL)
                      IN  IF r.err # NoError THEN Raised(r.st, 0, r.err)
                          ELSE Returned(r.st, 0, r.val)

\* VL6180X.get_distance: the except clause logs and re-raises
get_distance(b, p) ==
    LET w == write_byte(b, NewCall(p), COMMAND_SYSRANGE_START, 1)
    IN  IF w.err # NoError THEN Raised(w.st, 0, w.err)
        ELSE LET r == read(b, sleep(w.st, 100), COMMAND_RESULT_RANGE_VAL)
             IN  IF r.err # NoError THEN Raised(r.st, 0, r.err)
                 ELSE LET c == write_byte(b, r.st,
                                          COMMAND_SYSTEM_INTERRUPT_CLEAR, 7)
                      IN  IF c.err # NoError THEN Raised(c.st, 0, c.err)
                          ELSE Returned(c.st, 0, r.val)

\* mutant: the factor 100 of the numerator is dropped
VL6180X_lux_unscaled(light) ==
    RDiv(RMul(RInt(light), Rat(32, 100)), RInt(32 * 100))

\* light * 0.32 * 100 / (32 * 100)
VL6180X_lux(light) ==
    RDiv(RMul(RMul(RInt(light), Rat(32, 100)), RInt(100)), RInt(32 * 100))

\* mutant: a failed start write is tried a second time
get_light_retry(b, p) ==
    LET w1 == write_byte(b, NewCall(p), COMMAND_SYSALS_START, 1)
        w  == IF w1.err # NoError
              THEN write_byte(b, w1.st, COMMAND_SYSALS_START, 1) ELSE w1
    IN  IF w.err # NoError THEN Raised(w.st, 0, w.err)
        ELSE LET r == read16(b, sleep(w.st, 500), COMMAND_RESULT_ALS_VAL)
             IN  IF r.err # NoError THEN Raised(r.st, 0, r.err)
                 ELSE LET c == write_byte(b, r.st,
                                          COMMAND_SYSTEM_INTERRUPT_CLEAR, 7)
                      IN  IF c.err # NoError THEN Raised(c.st, 0, c.err)
                          ELSE Returned(c.st, 0, VL6180X_lux(r.val))

\* VL6180X.get_light: the except clause logs and re-raises
get_light(b, p) ==
    LET w == write_byte(b, NewCall(p), COMMAND_SYSALS_START, 1)
    IN  IF w.err # NoError THEN Raised(w.st, 0, w.err)
        ELSE LET r == read16(b, sleep(w.st, 500), COMMAND_RESULT_ALS_VAL)
             IN  IF r.err # NoError THEN Raised(r.st, 0, r.err)
                 ELSE LET c == write_byte(b, r.st,
                                          COMMAND_SYSTEM_INTERRUPT_CLEAR, 7)
                      IN  IF c.err # NoError THEN Raised(c.st, 0, c.err)
                          ELSE Returned(c.st, 0, VL6180X_lux(r.val))

---------------------------------------------------------------------------
(* Test mode (test_mode=True): the branches under "if self._test_mode"     *)

\* mutant: the span is one too wide
random_uniform_wide(a, b, r) == RAdd(a, RMul(RAdd(RSub(b, a), RInt(1)), r))

\* random.uniform(a, b) is a + (b - a) * random.random(); r is the value
\* drawn by random.random()
random_uniform(a, b, r) == RAdd(a, RMul(RSub(b, a), r))

\* a method that returns value from its test mode branch: no bus call, no
\* sleep
Simulated(p, value) ==
    [outcome |-> "return", value |-> value, err |-> NoError,
     attempts |-> 0, log |-> <<>>, nw |-> p.nw, nr |-> p.nr]

\* mutant: the settle sleep is taken before the mock values are returned
SHT31_get_temperature_humidity_test_mode_settle(p, rt, rh) ==
    Returned(sleep(NewCall(p), 500), 0,
             <<RAdd(RInt(20), random_uniform(RInt(-5), RInt(15), rt)),
               RAdd(RInt(50), random_uniform(RInt(-20), RInt(30), rh))>>)

\* SHT31.get_temperature_humidity, test mode:
\* temperature = 20.0 + random.uniform(-5, 15)
\* humidity = 50.0 + random.uniform(-20, 30)
SHT31_get_temperature_humidity_test_mode(p, rt, rh) ==
    Simulated(p, <<RAdd(RInt(20), random_uniform(RInt(-5), RInt(15), rt)),
                   RAdd(RInt(50), random_uniform(RInt(-20), RInt(30), rh))>>)

\* SHT31.read, test mode: return 0xFF
SHT31_read_test_mode(p, register) == [arg |-> register] @@ Simulated(p, 255)

\* SHT31.read_list, test mode: the dummy block
SHT31_read_list_test_mode(p, register, length) ==
    [arg |-> register] @@ Simulated(p, <<103, 137, 171, 128, 18, 205>>)

\* SHT31.write, test mode: return
SHT31_write_test_mode(p, register, value) ==
    [arg |-> register, data |-> value] @@ Simulated(p, <<>>)

\* SHT31.write_list, test mode: return
SHT31_write_list_test_mode(p, register, data) ==
    [arg |-> register, data |-> data] @@ Simulated(p, <<>>)

\* VL6180X.__init__, test mode: self._bus = None; return
VL6180X_init_test_mode(p) == Simulated(p, <<>>)

\* VL6180X.get_distance, test mode: return random.uniform(10, 200)
get_distance_test_mode(p, r) ==
    Simulated(p, random_uniform(RInt(10), RInt(200), r))

\* VL6180X.get_light, test mode: return random.uniform(0.1, 10.0)
get_light_test_mode(p, r) ==
    Simulated(p, random_uniform(Rat(1, 10), RInt(10), r))

\* VL6180X.read, test mode: 1 for COMMAND_SYSTEM_FRESH_OUT_OF_RESET, else 0xFF
read_test_mode(p, register16) ==
    [arg |-> register16] @@
    Simulated(p, IF register16 = COMMAND_SYSTEM_FRESH_OUT_OF_RESET
                 THEN 1 ELSE 255)

\* VL6180X.read16, test mode: return 0xFFFF
read16_test_mode(p, register16) ==
    [arg |-> register16] @@ Simulated(p, 65535)

\* mutant: the test mode check is missing and the write goes to the bus
write_byte_unguarded(b, p, register16, data) ==
    Returned(write_byte(b, NewCall(p), register16, data).st, 0, <<>>)

\* VL6180X.write_byte, test mode: return
write_byte_test_mode(b, p, register16, data) == Simulated(p, <<>>)

\* VL6180X.write_byte16, test mode: return
write_byte16_test_mode(b, p, register16, data16) == Simulated(p, <<>>)

---------------------------------------------------------------------------
(* Transport scripts                                                       *)

MaxWrites == 3        \* write calls a measurement script may fault
MaxReads == 2         \* read_byte answers of a measurement script
MaxInitWrites == 50   \* write calls a construction script may fault

RandomSteps == 4      \* random.random() is drawn from 0, 1/4, ..., 1
MaxCalls == 4         \* calls made on a test mode instance

Ok(v) == [err |-> NoError, val |-> v]
Fail(e) == [err |-> e, val |-> 0]

\* faults for some of the write calls in S
FaultMaps(S) == UNION { [D -> Errors] : D \in SUBSET S }

\* 6-byte answers of the SHT31; the first is the sample of SHT31.read_list
SampleBlocks ==
    { <<103, 137, 171, 128, 18, 205>>,
      <<0, 0, 129, 255, 255, 172>>,
      <<255, 255, 172, 0, 0, 129>> }

BlockAnswers == { Ok(d) : d \in SampleBlocks } \cup { Fail(e) : e \in Errors }

SHT31Scripts ==
    { [wfault |-> f, rd |-> r] :
          f \in FaultMaps(1..max_retries), r \in [1..max_retries -> BlockAnswers] }

SHT31modScripts ==
    { [wfault |-> f, rd |-> r] :
          f \in FaultMaps(1..1), r \in [1..1 -> BlockAnswers] }

\* 3200 = 12 * 256 + 128
SampleBytes == {0, 12, 128, 255}

ByteAnswers == { Ok(v) : v \in SampleBytes } \cup { Fail(e) : e \in Errors }

MeasureScripts ==
    { [wfault |-> f, rd |-> r] :
          f \in FaultMaps(1..MaxWrites), r \in [1..MaxReads -> ByteAnswers] }

\* Construction scripts: the device answers the reset check with the same
\* flag f in every attempt, and at most max_retries transactions fail (a
\* construction cannot meet more): F names the failing ones among the
\* first n write calls (k in 1..n, OSError) and the reset-check read_byte
\* calls (n + j for the j-th, TimeoutError).
FaultSets(n) ==
    { {x, y, z} \ {0} : x \in 0..n, y \in 0..n, z \in 0..n }

InitScript(n, F, f) ==
    [wfault |-> [k \in F \cap (1..n) |-> "OSError"],
     rd |-> [j \in 1..max_retries |->
                IF n + j \in F THEN Fail("TimeoutError") ELSE Ok(f)]]

InitScripts(n) ==
    { InitScript(n, F, f) : F \in FaultSets(n + max_retries), f \in {0, 1} }

---------------------------------------------------------------------------
(* The state machine: a harness calls driver methods on a scripted bus     *)

NoCall ==
    [op |-> "none", outcome |-> "none", value |-> <<>>, err |-> NoError,
     attempts |-> 0, log |-> <<>>, nw |-> 0, nr |-> 0, nw0 |-> 0, nr0 |-> 0]

\* the record of a finished call: what it did, and the transport position
\* (nw0, nr0) it started from
Call(op, p, res) == [op |-> op, nw0 |-> p.nw, nr0 |-> p.nr] @@ res

\* debug() was not started
NoDebug ==
    [pc |-> "idle", status |-> -1, hints |-> FALSE, cause |-> NoError,
     caught |-> FALSE, nw |-> 0, nr |-> 0, interval |-> 0]

Start(d, scripts, instance) ==
    /\ dev = d
    /\ bus \in scripts
    /\ pos = [nw |-> 0, nr |-> 0]
    /\ vl = instance
    /\ last = NoCall
    /\ test_mode = FALSE
    /\ calls = 0
    /\ dbg = NoDebug

\* hardware-mode instances exist; the VL6180X was constructed before
Init ==
    \/ Start("SHT31", SHT31Scripts, "absent")
    \/ Start("SHT31_modified", SHT31modScripts, "absent")
    \/ Start("VL6180X", MeasureScripts, "ready")

\* a driver method called at transport position p ended with res
Record(op, p, res) ==
    /\ last' = Call(op, p, res)
    /\ pos' = [nw |-> res.nw, nr |-> res.nr]

\* a driver method called by a harness, outside debug()
Finish(op, res) ==
    /\ Record(op, pos, res)
    /\ calls' = calls + 1
    /\ UNCHANGED dbg

\* SHT31.py and SHT31_modified.py define the same class but for the
\* hardware branch of get_temperature_humidity; the names under which the
\* calls of each are recorded
SHT31Drivers == {"SHT31", "SHT31_modified"}

Method(d) ==
    IF d = "SHT31"
    THEN [get_temperature_humidity |-> "SHT31.get_temperature_humidity",
          get_temperature |-> "SHT31.get_temperature",
          get_humidity |-> "SHT31.get_humidity",
          read |-> "SHT31.read", read_list |-> "SHT31.read_list",
          write |-> "SHT31.write", write_list |-> "SHT31.write_list"]
    ELSE [get_temperature_humidity |-> "SHT31_modified.get_temperature_humidity",
          get_temperature |-> "SHT31_modified.get_temperature",
          get_humidity |-> "SHT31_modified.get_humidity",
          read |-> "SHT31_modified.read",
          read_list |-> "SHT31_modified.read_list",
          write |-> "SHT31_modified.write",
          write_list |-> "SHT31_modified.write_list"]

SHT31_Measure ==
    /\ dev = "SHT31"
    /\ ~test_mode
    /\ pos.nr + max_retries <= Len(bus.rd)
    /\ Finish("SHT31.get_temperature_humidity",
              SHT31_get_temperature_humidity(bus, pos))
    /\ UNCHANGED <<dev, bus, vl, test_mode>>

SHT31mod_Measure ==
    /\ dev = "SHT31_modified"
    /\ ~test_mode
    /\ pos.nr + 1 <= Len(bus.rd)
    /\ Finish("SHT31_modified.get_temperature_humidity",
              SHT31mod_get_temperature_humidity(bus, pos))
    /\ UNCHANGED <<dev, bus, vl, test_mode>>

VL6180X_GetDistance ==
    /\ dev = "VL6180X"
    /\ ~test_mode
    /\ vl = "ready"
    /\ pos.nr + 1 <= Len(bus.rd)
    /\ Finish("VL6180X.get_distance", get_distance(bus, pos))
    /\ UNCHANGED <<dev, bus, vl, test_mode>>

VL6180X_GetLight ==
    /\ dev = "VL6180X"
    /\ ~test_mode
    /\ vl = "ready"
    /\ pos.nr + 2 <= Len(bus.rd)
    /\ Finish("VL6180X.get_light", get_light(bus, pos))
    /\ UNCHANGED <<dev, bus, vl, test_mode>>

SHT31_GetTemperature ==
    /\ dev = "SHT31"
    /\ ~test_mode
    /\ pos.nr + max_retries <= Len(bus.rd)
    /\ Finish("SHT31.get_temperature",
              SHT31_get_temperature(SHT31_get_temperature_humidity(bus, pos)))
    /\ UNCHANGED <<dev, bus, vl, test_mode>>

SHT31_GetHumidity ==
    /\ dev = "SHT31"
    /\ ~test_mode
    /\ pos.nr + max_retries <= Len(bus.rd)
    /\ Finish("SHT31.get_humidity",
              SHT31_get_humidity(SHT31_get_temperature_humidity(bus, pos)))
    /\ UNCHANGED <<dev, bus, vl, test_mode>>

\* get_temperature and get_humidity of SHT31_modified.py
SHT31mod_GetTemperature ==
    /\ dev = "SHT31_modified"
    /\ ~test_mode
    /\ pos.nr + 1 <= Len(bus.rd)
    /\ Finish("SHT31_modified.get_temperature",
              SHT31_get_temperature(SHT31mod_get_temperature_humidity(bus, pos)))
    /\ UNCHANGED <<dev, bus, vl, test_mode>>

SHT31mod_GetHumidity ==
    /\ dev = "SHT31_modified"
    /\ ~test_mode
    /\ pos.nr + 1 <= Len(bus.rd)
    /\ Finish("SHT31_modified.get_humidity",
              SHT31_get_humidity(SHT31mod_get_temperature_humidity(bus, pos)))
    /\ UNCHANGED <<dev, bus, vl, test_mode>>

\* VL6180X(test_mode=False): an instance exists only if __init__ returns
VL6180X_New ==
    /\ dev = "VL6180X"
    /\ ~test_mode
    /\ vl = "absent"
    /\ last.op = "none"
    /\ pos.nr + max_retries <= Len(bus.rd)
    /\ LET res == VL6180X_init(bus, pos)
       IN  /\ Finish("VL6180X.__init__", res)
           /\ vl' = IF res.outcome = "return" THEN "ready" ELSE "absent"
    /\ UNCHANGED <<dev, bus, test_mode>>

Next ==
    \/ SHT31_Measure
    \/ SHT31mod_Measure
    \/ VL6180X_GetDistance
    \/ VL6180X_GetLight

Spec == Init /\ [][Next]_vars

\* construction of the VL6180X on a faulty bus
InitConstruct == Start("VL6180X", InitScripts(MaxInitWrites), "absent")

NextConstruct == VL6180X_New

SpecConstruct == InitConstruct /\ [][NextConstruct]_vars

\* the data path: a bus that never fails, swept over every raw byte pair.
\* The SHT31 answers <<hi, lo, 0, lo, hi, 0>>, the VL6180X hi then lo.
SweepBlocks(B) ==
    { [wfault |-> <<>>, rd |-> [j \in 1..max_retries |-> Ok(<<h, l, 0, l, h, 0>>)]] :
          h \in B, l \in B }

SweepBlocksOnce(B) ==
    { [wfault |-> <<>>, rd |-> <<Ok(<<h, l, 0, l, h, 0>>)>>] : h \in B, l \in B }

SweepWords(B) ==
    { [wfault |-> <<>>, rd |-> <<Ok(h), Ok(l)>>] : h \in B, l \in B }

InitDecode ==
    \/ Start("SHT31", SweepBlocks(Byte), "absent")
    \/ Start("SHT31_modified", SweepBlocksOnce(Byte), "absent")
    \/ Start("VL6180X", SweepWords(Byte), "ready")

NextDecode ==
    \/ SHT31_Measure
    \/ SHT31mod_Measure
    \/ VL6180X_GetLight

SpecDecode == InitDecode /\ [][NextDecode]_vars

\* test mode instances.  self._bus is None: the script is empty and pos
\* counts what a call would send all the same.
NoBus == [wfault |-> <<>>, rd |-> <<>>]

\* values of random.random(); the upper end stands for the results that
\* rounding lifts to b in random.uniform(a, b)
RandomSamples == { Rat(k, RandomSteps) : k \in 0..RandomSteps }

SampleRegisters ==
    {COMMAND_SYSTEM_FRESH_OUT_OF_RESET, COMMAND_RESULT_RANGE_VAL,
     COMMAND_RESULT_ALS_VAL}

InitTestMode ==
    /\ dev \in {"SHT31", "SHT31_modified", "VL6180X"}
    /\ bus = NoBus
    /\ pos = [nw |-> 0, nr |-> 0]
    /\ vl = "absent"
    /\ last = NoCall
    /\ test_mode = TRUE
    /\ calls = 0
    /\ dbg = NoDebug

SHT31_TestMode == dev \in SHT31Drivers /\ test_mode /\ calls < MaxCalls

SHT31_MeasureTestMode ==
    /\ SHT31_TestMode
    /\ \E rt \in RandomSamples, rh \in RandomSamples :
           Finish(Method(dev).get_temperature_humidity,
                  SHT31_get_temperature_humidity_test_mode(pos, rt, rh))
    /\ UNCHANGED <<dev, bus, vl, test_mode>>

SHT31_GetTemperatureTestMode ==
    /\ SHT31_TestMode
    /\ \E rt \in RandomSamples, rh \in RandomSamples :
           Finish(Method(dev).get_temperature,
                  SHT31_get_temperature(
                      SHT31_get_temperature_humidity_test_mode(pos, rt, rh)))
    /\ UNCHANGED <<dev, bus, vl, test_mode>>

SHT31_GetHumidityTestMode ==
    /\ SHT31_TestMode
    /\ \E rt \in RandomSamples, rh \in RandomSamples :
           Finish(Method(dev).get_humidity,
                  SHT31_get_humidity(
                      SHT31_get_temperature_humidity_test_mode(pos, rt, rh)))
    /\ UNCHANGED <<dev, bus, vl, test_mode>>

\* registers, values and lists passed to the register-level methods of
\* the SHT31 drivers
SHT31Registers == {SHT31_DATA_REGISTER, COMMAND_MEAS_CLKST}

SHT31Values == {16, 272}

SHT31Lists == {COMMAND_MEAS_MEDREP, COMMAND_MEAS_HIGHREP}

SHT31_ReadTestMode ==
    /\ SHT31_TestMode
    /\ \E register \in SHT31Registers :
           Finish(Method(dev).read, SHT31_read_test_mode(pos, register))
    /\ UNCHANGED <<dev, bus, vl, test_mode>>

SHT31_ReadListTestMode ==
    /\ SHT31_TestMode
    /\ \E register \in SHT31Registers :
           Finish(Method(dev).read_list,
                  SHT31_read_list_test_mode(pos, register, SHT31_DATA_LENGTH))
    /\ UNCHANGED <<dev, bus, vl, test_mode>>

SHT31_WriteTestMode ==
    /\ SHT31_TestMode
    /\ \E register \in SHT31Registers, value \in SHT31Values :
           Finish(Method(dev).write,
                  SHT31_write_test_mode(pos, register, value))
    /\ UNCHANGED <<dev, bus, vl, test_mode>>

SHT31_WriteListTestMode ==
    /\ SHT31_TestMode
    /\ \E register \in SHT31Registers, data \in SHT31Lists :
           Finish(Method(dev).write_list,
                  SHT31_write_list_test_mode(pos, register, data))
    /\ UNCHANGED <<dev, bus, vl, test_mode>>

\* VL6180X(test_mode=True)
VL6180X_NewTestMode ==
    /\ dev = "VL6180X"
    /\ test_mode
    /\ vl = "absent"
    /\ Finish("VL6180X.__init__", VL6180X_init_test_mode(pos))
    /\ vl' = "ready"
    /\ UNCHANGED <<dev, bus, test_mode>>

VL6180X_TestMode ==
    dev = "VL6180X" /\ test_mode /\ vl = "ready" /\ calls < MaxCalls

VL6180X_GetDistanceTestMode ==
    /\ VL6180X_TestMode
    /\ \E r \in RandomSamples :
           Finish("VL6180X.get_distance", get_distance_test_mode(pos, r))
    /\ UNCHANGED <<dev, bus, vl, test_mode>>

VL6180X_GetLightTestMode ==
    /\ VL6180X_TestMode
    /\ \E r \in RandomSamples :
           Finish("VL6180X.get_light", get_light_test_mode(pos, r))
    /\ UNCHANGED <<dev, bus, vl, test_mode>>

VL6180X_ReadTestMode ==
    /\ VL6180X_TestMode
    /\ \E register16 \in SampleRegisters :
           Finish("VL6180X.read", read_test_mode(pos, register16))
    /\ UNCHANGED <<dev, bus, vl, test_mode>>

VL6180X_Read16TestMode ==
    /\ VL6180X_TestMode
    /\ \E register16 \in SampleRegisters :
           Finish("VL6180X.read16", read16_test_mode(pos, register16))
    /\ UNCHANGED <<dev, bus, vl, test_mode>>

VL6180X_WriteByteTestMode ==
    /\ VL6180X_TestMode
    /\ \E register16 \in SampleRegisters, data \in SampleBytes :
           Finish("VL6180X.write_byte",
                  write_byte_test_mode(bus, pos, register16, data))
    /\ UNCHANGED <<dev, bus, vl, test_mode>>

VL6180X_WriteByte16TestMode ==
    /\ VL6180X_TestMode
    /\ \E register16 \in SampleRegisters, data16 \in {0, 123, 65535} :
           Finish("VL6180X.write_byte16",
                  write_byte16_test_mode(bus, pos, register16, data16))
    /\ UNCHANGED <<dev, bus, vl, test_mode>>

NextTestMode ==
    \/ SHT31_MeasureTestMode
    \/ SHT31_GetTemperatureTestMode
    \/ SHT31_GetHumidityTestMode
    \/ SHT31_ReadTestMode
    \/ SHT31_ReadListTestMode
    \/ SHT31_WriteTestMode
    \/ SHT31_WriteListTestMode
    \/ VL6180X_NewTestMode
    \/ VL6180X_GetDistanceTestMode
    \/ VL6180X_GetLightTestMode
    \/ VL6180X_ReadTestMode
    \/ VL6180X_Read16TestMode
    \/ VL6180X_WriteByteTestMode
    \/ VL6180X_WriteByte16TestMode

SpecTestMode == InitTestMode /\ [][NextTestMode]_vars

\* repeated calls on one SHT31 instance: any of the first 2 * max_retries
\* command writes and block reads may fail, and the j-th block read is
\* answered with a block that differs from every other in all data bytes
SeqBlock(j) == <<16 * j, j, 171, 255 - j, 3 * j, 205>>

CallScripts(n) ==
    { [wfault |-> [k \in W |-> "OSError"],
       rd |-> [j \in 1..n |->
                  IF j \in R THEN Fail("TimeoutError") ELSE Ok(SeqBlock(j))]] :
          W \in SUBSET (1..n), R \in SUBSET (1..n) }

InitCalls == Start("SHT31", CallScripts(2 * max_retries), "absent")

NextCalls ==
    \/ SHT31_Measure
    \/ SHT31_GetTemperature
    \/ SHT31_GetHumidity

SpecCalls == InitCalls /\ [][NextCalls]_vars

\* the two retry loops on a faulty bus: an SHT31 measurement and the
\* construction of a VL6180X
InitRetry ==
    \/ Start("SHT31", SHT31Scripts, "absent")
    \/ Start("VL6180X", InitScripts(MaxInitWrites), "absent")

NextRetry ==
    \/ SHT31_Measure
    \/ VL6180X_New

SpecRetry == InitRetry /\ [][NextRetry]_vars

\* the two retry loops on a bus that also raises errors of other classes
\* and answers block reads with short blocks
AnyErrors == Errors \cup OtherErrors

ShortBlocks == { <<>>, <<103>>, <<103, 137, 171, 128>> }

KindBlockAnswers ==
    { Ok(d) : d \in {<<103, 137, 171, 128, 18, 205>>, <<103, 137, 171, 128, 18>>}
                        \cup ShortBlocks }
        \cup { Fail(e) : e \in AnyErrors }

SHT31KindScripts ==
    { [wfault |-> f, rd |-> r] :
          f \in UNION { [D -> AnyErrors] : D \in SUBSET (1..max_retries) },
          r \in [1..max_retries -> KindBlockAnswers] }

\* construction scripts: up to max_retries failing transactions F among the
\* write calls W and the reset-check reads (n + j for the j-th), each with
\* an error of any class
InitKindScripts(W, n) ==
    LET P == {0} \cup W \cup ((n + 1)..(n + max_retries))
    IN  UNION { { [wfault |-> [k \in F \cap (1..n) |-> e[k]],
                   rd |-> [j \in 1..max_retries |->
                              IF n + j \in F THEN Fail(e[n + j]) ELSE Ok(f)]] :
                      e \in [F -> AnyErrors], f \in {0, 1} } :
                F \in { {x, y, z} \ {0} : x \in P, y \in P, z \in P } }

InitKinds ==
    \/ Start("SHT31", SHT31KindScripts, "absent")
    \/ Start("VL6180X", InitKindScripts({1, 2, 5, 35}, MaxInitWrites), "absent")

NextKinds ==
    \/ SHT31_Measure
    \/ VL6180X_New

SpecKinds == InitKinds /\ [][NextKinds]_vars

\* SHT31.py and SHT31_modified.py on the same buses: buses that never fail,
\* swept over raw byte pairs, and the faulty buses of SHT31Scripts
EquivBytes == {0, 1, 103, 128, 255}

InitEquiv ==
    \/ Start("SHT31", SHT31Scripts \cup SweepBlocks(EquivBytes), "absent")
    \/ Start("SHT31_modified", SHT31Scripts \cup SweepBlocks(EquivBytes),
             "absent")

NextEquiv ==
    \/ SHT31_Measure
    \/ SHT31mod_Measure

SpecEquiv == InitEquiv /\ [][NextEquiv]_vars

---------------------------------------------------------------------------
(* The register access methods of the VL6180X called directly             *)

\* the outcome of a register access x = [st, err, val] that returns value
Accessed(x, value) ==
    IF x.err # NoError THEN Raised(x.st, 0, x.err)
    ELSE Returned(x.st, 0, value)

\* every 16-bit register address
Register16 == 0..65535

\* a bus that never fails and answers 0x12, then 0x34
InitRegister ==
    Start("VL6180X", {[wfault |-> <<>>, rd |-> <<Ok(18), Ok(52)>>]}, "ready")

\* one register access on a hardware-mode instance
RegisterAccess == dev = "VL6180X" /\ ~test_mode /\ vl = "ready" /\ calls = 0

VL6180X_Read ==
    /\ RegisterAccess
    /\ \E register16 \in Register16 :
           LET x == read(bus, NewCall(pos), register16)
           IN  Finish("VL6180X.read",
                      [arg |-> register16] @@ Accessed(x, x.val))
    /\ UNCHANGED <<dev, bus, vl, test_mode>>

VL6180X_Read16 ==
    /\ RegisterAccess
    /\ \E register16 \in Register16 :
           LET x == read16(bus, NewCall(pos), register16)
           IN  Finish("VL6180X.read16",
                      [arg |-> register16] @@ Accessed(x, x.val))
    /\ UNCHANGED <<dev, bus, vl, test_mode>>

\* data: a byte and a value with a ninth bit set
VL6180X_WriteByte ==
    /\ RegisterAccess
    /\ \E register16 \in Register16, data \in {255, 263} :
           LET x == write_byte(bus, NewCall(pos), register16, data)
           IN  Finish("VL6180X.write_byte",
                      [arg |-> register16, data |-> data] @@ Accessed(x, <<>>))
    /\ UNCHANGED <<dev, bus, vl, test_mode>>

\* data16: a 16-bit value and a value with a seventeenth bit set
VL6180X_WriteByte16 ==
    /\ RegisterAccess
    /\ \E register16 \in Register16, data16 \in {4660, 65636} :
           LET x == write_byte16(bus, NewCall(pos), register16, data16)
           IN  Finish("VL6180X.write_byte16",
                      [arg |-> register16, data |-> data16] @@ Accessed(x, <<>>))
    /\ UNCHANGED <<dev, bus, vl, test_mode>>

NextRegister ==
    \/ VL6180X_Read
    \/ VL6180X_Read16
    \/ VL6180X_WriteByte
    \/ VL6180X_WriteByte16

SpecRegister == InitRegister /\ [][NextRegister]_vars

---------------------------------------------------------------------------
(* The register-level methods of the SHT31 drivers called directly, and    *)
(* the wrappers of SHT31_modified.py                                       *)

MaxAccesses == 2      \* calls made on one instance

\* what read_byte_data may answer: a byte, a value with a ninth bit set, or
\* an error
ByteDataAnswers ==
    { Ok(v) : v \in Byte \cup {427} } \cup { Fail(e) : e \in Errors }

AccessScripts ==
    { [wfault |-> f, rd |-> r] :
          f \in FaultMaps(1..1),
          r \in [1..2 -> { Ok(<<103, 137, 171, 128, 18, 205>>),
                           Fail("OSError") }] }

InitAccess ==
    \/ Start("SHT31", AccessScripts, "absent")
    \/ Start("SHT31_modified", AccessScripts, "absent")

SHT31_Access == dev \in SHT31Drivers /\ ~test_mode /\ calls < MaxAccesses

SHT31_Read ==
    /\ SHT31_Access
    /\ \E register \in SHT31Registers, a \in ByteDataAnswers :
           LET x == SHT31_read(NewCall(pos), register, a)
           IN  Finish(Method(dev).read,
                      [arg |-> register] @@ Accessed(x, x.val))
    /\ UNCHANGED <<dev, bus, vl, test_mode>>

SHT31_ReadList ==
    /\ SHT31_Access
    /\ pos.nr + 1 <= Len(bus.rd)
    /\ \E register \in SHT31Registers :
           LET x == SHT31_read_list(bus, NewCall(pos), register,
                                    SHT31_DATA_LENGTH)
           IN  Finish(Method(dev).read_list,
                      [arg |-> register] @@ Accessed(x, x.val))
    /\ UNCHANGED <<dev, bus, vl, test_mode>>

SHT31_Write ==
    /\ SHT31_Access
    /\ \E register \in SHT31Registers, value \in SHT31Values,
          e \in {NoError} \cup Errors :
           LET x == SHT31_write(NewCall(pos), register, value, e)
           IN  Finish(Method(dev).write,
                      [arg |-> register, data |-> value] @@ Accessed(x, <<>>))
    /\ UNCHANGED <<dev, bus, vl, test_mode>>

SHT31_WriteList ==
    /\ SHT31_Access
    /\ \E register \in SHT31Registers, data \in SHT31Lists :
           LET x == SHT31_write_list(bus, NewCall(pos), register, data)
           IN  Finish(Method(dev).write_list,
                      [arg |-> register, data |-> data] @@ Accessed(x, <<>>))
    /\ UNCHANGED <<dev, bus, vl, test_mode>>

NextAccess ==
    \/ SHT31_Read
    \/ SHT31_ReadList
    \/ SHT31_Write
    \/ SHT31_WriteList
    \/ SHT31mod_Measure
    \/ SHT31mod_GetTemperature
    \/ SHT31mod_GetHumidity

SpecAccess == InitAccess /\ [][NextAccess]_vars

---------------------------------------------------------------------------
(* debug(): the entry point of SHT31.py, SHT31_modified.py and VL6180.py   *)

\* How a run of debug() ends.  The function has no sys.exit: when it
\* returns the interpreter exits with status 0, and an exception that
\* leaves it ends the interpreter with a traceback and status 1.
\* (nw, nr) is the transport position at that moment, interval the value
\* of --interval.

\* "except Exception as e": the error and the remediation hints are logged
DebugCaught(e, p) ==
    [pc |-> "exited", status |-> 0, hints |-> TRUE, cause |-> e,
     caught |-> TRUE, nw |-> p.nw, nr |-> p.nr, interval |-> dbg.interval]

\* "except KeyboardInterrupt": one line is logged
DebugInterrupted(p) ==
    [pc |-> "exited", status |-> 0, hints |-> FALSE,
     cause |-> KeyboardInterrupt, caught |-> TRUE, nw |-> p.nw, nr |-> p.nr,
     interval |-> dbg.interval]

\* an exception raised outside the try statement
DebugUncaught(e, p) ==
    [pc |-> "exited", status |-> 1, hints |-> FALSE, cause |-> e,
     caught |-> FALSE, nw |-> p.nw, nr |-> p.nr, interval |-> dbg.interval]

\* SIGINT: Ctrl-C outside the try statement is an uncaught
\* KeyboardInterrupt, on which the interpreter prints the traceback and
\* ends itself with the signal: subprocess reports the status -2, a shell
\* 130
SIGINT == 2

DebugKilled(p) ==
    [pc |-> "exited", status |-> -SIGINT, hints |-> FALSE,
     cause |-> KeyboardInterrupt, caught |-> FALSE, nw |-> p.nw, nr |-> p.nr,
     interval |-> dbg.interval]

\* parser.parse_args() ends the interpreter itself through SystemExit:
\* with status 2 and the usage message for arguments it rejects, with
\* status 0 after printing the help for -h
DebugParsed(a, p) ==
    [pc |-> "exited", status |-> IF a = "help" THEN 0 ELSE 2,
     hints |-> FALSE, cause |-> "SystemExit", caught |-> FALSE,
     nw |-> p.nw, nr |-> p.nr, interval |-> dbg.interval]

\* The ways the step that leads debug() to d may end.  When d is an exit
\* through an except clause, Ctrl-C may arrive while the clause logs: the
\* KeyboardInterrupt is raised inside the handler, where the sibling
\* "except KeyboardInterrupt" does not apply, and the process dies by
\* SIGINT like in DebugKilled, with the remediation hints of
\* "except Exception" logged in full or not.
DebugHandled(d) ==
    IF d.pc = "exited" /\ d.caught
    THEN {d} \cup { [DebugKilled(d) EXCEPT !.hints = h] :
                       h \in IF d.hints THEN BOOLEAN ELSE {FALSE} }
    ELSE {d}

\* an exception that leaves a driver call made inside the try statement
DebugRaised(res) ==
    IF res.err = KeyboardInterrupt
    THEN DebugInterrupted(res)
    ELSE DebugCaught(res.err, res)

\* the log line and sleep(args.interval) after a measurement that returned
\* at p: time.sleep raises ValueError for a negative length, unless Ctrl-C
\* arrived before it is called
DebugSleep(p) ==
    IF dbg.interval < 0
    THEN {DebugCaught("ValueError", p), DebugInterrupted(p)}
    ELSE {dbg}

\* How __init__ gets to its first bus transaction: smbus2.SMBus(1) opens
\* /dev/i2c-1 and returns or raises an OSError (FileNotFoundError,
\* PermissionError), test mode does not open it; Ctrl-C may arrive
\* meanwhile
OpenOutcomes(tm) ==
    IF tm THEN {NoError, KeyboardInterrupt}
    ELSE {NoError, "OSError", KeyboardInterrupt}

\* parser.parse_args() returns, leaves through SystemExit on arguments it
\* rejects ("usage") or on -h ("help"), or Ctrl-C arrives while it runs
ParseOutcomes == {NoError, KeyboardInterrupt, "usage", "help"}

\* values of --interval (type=int, default 10)
Intervals == {-1, 10}

\* VL6180X scripts for debug(): the reset check reads 0; a construction
\* without faults makes 16 write calls for the register writes and one for
\* the reset check, the measurements follow
DebugWrites == {1, 2, 17, 18, 19, 20}

DebugScripts(n) ==
    { [wfault |-> [k \in W |-> "OSError"],
       rd |-> [j \in 1..n |->
                  IF j \in R THEN Fail("TimeoutError") ELSE Ok(0)]] :
          W \in SUBSET DebugWrites, R \in SUBSET (1..n) }

StartDebug(d, scripts, tm) ==
    /\ dev = d
    /\ bus \in scripts
    /\ pos = [nw |-> 0, nr |-> 0]
    /\ vl = "absent"
    /\ last = NoCall
    /\ test_mode = tm
    /\ calls = 0
    /\ dbg = NoDebug

\* python3 SHT31.py [--test], python3 SHT31_modified.py [--test] and
\* python3 VL6180.py [--test]
InitDebug ==
    \/ StartDebug("SHT31", CallScripts(2 * max_retries), FALSE)
    \/ StartDebug("SHT31", {NoBus}, TRUE)
    \/ StartDebug("SHT31_modified", CallScripts(2 * max_retries), FALSE)
    \/ StartDebug("SHT31_modified", {NoBus}, TRUE)
    \/ StartDebug("VL6180X", DebugScripts(2 * max_retries), FALSE)
    \/ StartDebug("VL6180X", {NoBus}, TRUE)

\* debug() of SHT31.py and SHT31_modified.py: args = parser.parse_args();
\* sensor = SHT31(test_mode=args.test), both before the try
SHT31_DebugStart ==
    /\ dev \in SHT31Drivers
    /\ dbg.pc = "idle"
    /\ \E interval \in Intervals, a \in ParseOutcomes,
          e \in OpenOutcomes(test_mode) :
           dbg' = [(IF a = KeyboardInterrupt THEN DebugKilled(pos)
                    ELSE IF a # NoError THEN DebugParsed(a, pos)
                    ELSE IF e = KeyboardInterrupt THEN DebugKilled(pos)
                    ELSE IF e # NoError THEN DebugUncaught(e, pos)
                    ELSE [dbg EXCEPT !.pc = "loop"])
                       EXCEPT !.interval = interval]
    /\ UNCHANGED <<dev, bus, pos, vl, last, test_mode, calls>>

\* debug() of SHT31.py and SHT31_modified.py: one iteration of "while
\* True": get_temperature_humidity(), during which Ctrl-C may arrive,
\* the log line, and the start of sleep(args.interval); the except
\* clause that an exception out of them reaches
SHT31_DebugMeasure ==
    /\ dev \in SHT31Drivers
    /\ dbg.pc = "loop"
    /\ IF test_mode
       THEN calls < MaxCalls
       ELSE pos.nr + max_retries <= Len(bus.rd)
    /\ \E rt \in RandomSamples, rh \in RandomSamples :
           \E res \in WithInterrupts(
                        IF test_mode
                        THEN SHT31_get_temperature_humidity_test_mode(pos, rt, rh)
                        ELSE IF dev = "SHT31"
                             THEN SHT31_get_temperature_humidity(bus, pos)
                             ELSE SHT31mod_get_temperature_humidity(bus, pos)) :
               /\ Record(Method(dev).get_temperature_humidity, pos, res)
               /\ \E d \in IF res.outcome = "raise"
                            THEN {DebugRaised(res)}
                            ELSE DebugSleep(res) :
                      dbg' \in DebugHandled(d)
    /\ calls' = calls + 1
    /\ UNCHANGED <<dev, bus, vl, test_mode>>

\* VL6180.py debug(): args = parser.parse_args(), before the try, then
\* sensor = VL6180X(test_mode=args.test) inside it; Ctrl-C may arrive at
\* any step of __init__
VL6180X_DebugStart ==
    /\ dev = "VL6180X"
    /\ dbg.pc = "idle"
    /\ IF test_mode THEN TRUE ELSE pos.nr + max_retries <= Len(bus.rd)
    /\ \E interval \in Intervals, a \in ParseOutcomes,
          e \in OpenOutcomes(test_mode) :
           IF a # NoError
           THEN /\ dbg' = [(IF a = KeyboardInterrupt
                            THEN DebugKilled(pos)
                            ELSE DebugParsed(a, pos))
                               EXCEPT !.interval = interval]
                /\ UNCHANGED <<pos, vl, last, calls>>
           ELSE IF e # NoError
           THEN /\ \E d \in DebugHandled(IF e = KeyboardInterrupt
                                          THEN DebugInterrupted(pos)
                                          ELSE DebugCaught(e, pos)) :
                       dbg' = [d EXCEPT !.interval = interval]
                /\ UNCHANGED <<pos, vl, last, calls>>
           ELSE \E res \in WithInterrupts(IF test_mode
                                          THEN VL6180X_init_test_mode(pos)
                                          ELSE VL6180X_init(bus, pos)) :
                    /\ Record("VL6180X.__init__", pos, res)
                    /\ calls' = calls + 1
                    /\ vl' = IF res.outcome = "return"
                             THEN "ready" ELSE "absent"
                    /\ \E d \in DebugHandled(
                                   IF res.outcome = "raise"
                                   THEN DebugRaised(res)
                                   ELSE [dbg EXCEPT !.pc = "loop"]) :
                           dbg' = [d EXCEPT !.interval = interval]
    /\ UNCHANGED <<dev, bus, test_mode>>

\* VL6180.py debug(): distance = sensor.get_distance(); Ctrl-C may arrive
\* during it
VL6180X_DebugDistance ==
    /\ dev = "VL6180X"
    /\ dbg.pc = "loop"
    /\ IF test_mode
       THEN calls < MaxCalls
       ELSE pos.nr + 1 <= Len(bus.rd)
    /\ \E r \in RandomSamples :
           \E res \in WithInterrupts(IF test_mode
                                     THEN get_distance_test_mode(pos, r)
                                     ELSE get_distance(bus, pos)) :
               /\ Record("VL6180X.get_distance", pos, res)
               /\ dbg' \in DebugHandled(IF res.outcome = "raise"
                                         THEN DebugRaised(res)
                                         ELSE [dbg EXCEPT !.pc = "light"])
    /\ calls' = calls + 1
    /\ UNCHANGED <<dev, bus, vl, test_mode>>

\* VL6180.py debug(): light = sensor.get_light(), the log line, and the
\* start of sleep(args.interval); Ctrl-C may arrive meanwhile
VL6180X_DebugLight ==
    /\ dev = "VL6180X"
    /\ dbg.pc = "light"
    /\ IF test_mode THEN TRUE ELSE pos.nr + 2 <= Len(bus.rd)
    /\ \E r \in RandomSamples :
           \E res \in WithInterrupts(IF test_mode
                                     THEN get_light_test_mode(pos, r)
                                     ELSE get_light(bus, pos)) :
               /\ Record("VL6180X.get_light", pos, res)
               /\ \E d \in IF res.outcome = "raise"
                            THEN {DebugRaised(res)}
                            ELSE DebugSleep(res) :
                      dbg' \in DebugHandled([d EXCEPT !.pc =
                                 IF @ = "light" THEN "loop" ELSE @])
    /\ calls' = calls + 1
    /\ UNCHANGED <<dev, bus, vl, test_mode>>

\* Ctrl-C while debug() is between two driver calls of its loop: in
\* sleep(args.interval), or between get_distance() and get_light(); the
\* "except KeyboardInterrupt" clause logs its line, during which Ctrl-C
\* may arrive again
Debug_Interrupt ==
    /\ dbg.pc \in {"loop", "light"}
    /\ dbg' \in DebugHandled(DebugInterrupted(pos))
    /\ UNCHANGED <<dev, bus, pos, vl, last, test_mode, calls>>

NextDebug ==
    \/ SHT31_DebugStart
    \/ SHT31_DebugMeasure
    \/ VL6180X_DebugStart
    \/ VL6180X_DebugDistance
    \/ VL6180X_DebugLight
    \/ Debug_Interrupt

SpecDebug == InitDebug /\ [][NextDebug]_vars

---------------------------------------------------------------------------
(* What the script holds for the SHT31 call recorded in last               *)

IsSHT31Call == last.op = "SHT31.get_temperature_humidity"

\* the command write of attempt k (1, 2, 3) is write call nw0 + k
SHT31_WriteFault(k) ==
    IF last.nw0 + k \in DOMAIN bus.wfault
    THEN bus.wfault[last.nw0 + k] ELSE NoError

\* the block read of attempt k follows the reads of the earlier attempts
\* whose command write went through
SHT31_ReadIndex(k) ==
    last.nr0 + Cardinality({i \in 1..(k - 1) : SHT31_WriteFault(i) = NoError}) + 1

\* the transport error attempt k meets, NoError if it meets none
SHT31_AttemptError(k) ==
    IF SHT31_WriteFault(k) # NoError
    THEN SHT31_WriteFault(k)
    ELSE bus.rd[SHT31_ReadIndex(k)].err

CommandWrites(log) ==
    Cardinality({i \in 1..Len(log) :
        /\ log[i].op = "write_i2c_block_data"
        /\ log[i].reg = COMMAND_MEAS_CLKST})

RetryWaits(log) ==
    Cardinality({i \in 1..Len(log) : log[i].op = "sleep" /\ log[i].ms = 200})

FailsTwiceThenSucceeds ==
    /\ IsSHT31Call
    /\ SHT31_AttemptError(1) # NoError
    /\ SHT31_AttemptError(2) # NoError
    /\ SHT31_AttemptError(3) = NoError

FailsThreeTimes ==
    /\ IsSHT31Call
    /\ \A k \in 1..max_retries : SHT31_AttemptError(k) # NoError

---------------------------------------------------------------------------
(* Reading the trace of a VL6180X call                                     *)

IsInitCall == last.op = "VL6180X.__init__"
IsDistanceCall == last.op = "VL6180X.get_distance"
IsLightCall == last.op = "VL6180X.get_light"

\* the block write that carries register16 and then payload, with outcome e
WriteEvent(register16, payload, e) ==
    [op |-> "write_i2c_block_data", addr |-> VL6180X_ADDRESS,
     reg |-> HighByte(register16), data |-> <<LowByte(register16)>> \o payload,
     err |-> e]

ReadByteEvent(e) == [op |-> "read_byte", addr |-> VL6180X_ADDRESS, err |-> e]

SleepEvent(ms) == [op |-> "sleep", ms |-> ms]

IsBlockWrite(ev) == ev.op = "write_i2c_block_data"

\* ev is an attempt (successful or not) to send register16 and payload
Sends(ev, register16, payload) ==
    /\ IsBlockWrite(ev)
    /\ ev.reg = HighByte(register16)
    /\ ev.data = <<LowByte(register16)>> \o payload

Faulted(ev) == ev.op # "sleep" /\ ev.err # NoError

\* positions of the trace where the reset-check register is addressed
ResetChecks(log) ==
    {i \in 1..Len(log) : Sends(log[i], COMMAND_SYSTEM_FRESH_OUT_OF_RESET, <<>>)}

\* the trace from the last reset check on
FinalAttempt(log) ==
    LET i == CHOOSE x \in ResetChecks(log) : \A y \in ResetChecks(log) : y <= x
    IN  SubSeq(log, i, Len(log))

IsRegisterWrite(ev) == IsBlockWrite(ev) /\ Len(ev.data) >= 2

\* the register writes of a trace, in order: <<register16, data bytes>>
RegisterWrites(log) ==
    LET ws == SelectSeq(log, IsRegisterWrite)
    IN  [i \in 1..Len(ws) |-> <<ws[i].reg * 256 + ws[i].data[1], Tail(ws[i].data)>>]

\* the register writes of the whole initialization sequence for a device
\* whose reset check read as flag
InitSequence(flag) ==
    LET prog == (IF flag = 1 THEN TuningWrites ELSE <<>>)
                    \o PublicWrites \o PostLoopWrites
    IN  [i \in 1..Len(prog) |->
            <<prog[i].reg,
              IF prog[i].wide
              THEN <<HighByte(prog[i].data), LowByte(prog[i].data)>>
              ELSE <<LowByte(prog[i].data)>> >>]

\* what the script holds for the transactions of the measurement in last:
\* the k-th write call and the j-th read_byte call of the call
WriteFault(k) ==
    IF last.nw0 + k \in DOMAIN bus.wfault
    THEN bus.wfault[last.nw0 + k] ELSE NoError

ReadAnswer(j) == bus.rd[last.nr0 + j]

\* the steps of a measurement in program order: start write, address write
\* of the result read, read_byte (two for the 16-bit result), interrupt clear
MeasureSteps ==
    IF IsDistanceCall
    THEN <<WriteFault(1), WriteFault(2), ReadAnswer(1).err, WriteFault(3)>>
    ELSE <<WriteFault(1), WriteFault(2), ReadAnswer(1).err,
           ReadAnswer(2).err, WriteFault(3)>>

FirstError(steps) ==
    IF \A i \in 1..Len(steps) : steps[i] = NoError
    THEN NoError
    ELSE steps[CHOOSE i \in 1..Len(steps) :
                   /\ steps[i] # NoError
                   /\ \A j \in 1..(i - 1) : steps[j] = NoError]

StartRegister ==
    IF IsDistanceCall THEN COMMAND_SYSRANGE_START ELSE COMMAND_SYSALS_START

StartWrites(log) ==
    Cardinality({i \in 1..Len(log) : Sends(log[i], StartRegister, <<1>>)})

\* the 16-bit ALS result the script answers to the light measurement in
\* last: first byte high, second byte low
LightRaw == ReadAnswer(1).val * 256 + ReadAnswer(2).val

IsSHTCall ==
    last.op \in {"SHT31.get_temperature_humidity",
                 "SHT31_modified.get_temperature_humidity"}

\* the block answered to the last read of the SHT31 call in last
BlockRead == bus.rd[last.nr].val

TemperatureRaw == BlockRead[1] * 256 + BlockRead[2]

HumidityRaw == BlockRead[4] * 256 + BlockRead[5]

\* the two bytes of a 16-bit raw value, high byte first
RawBytes(raw) == <<raw \div 256, raw % 256>>

---------------------------------------------------------------------------
(* Claims                                                                  *)

\* C1: when the transport fails in the first two attempts of a hardware-mode
\* SHT31.get_temperature_humidity() call and succeeds in the third, the call
\* returns the reading decoded from the 6 bytes of the third attempt, after
\* exactly two retries (three command writes), and no error is raised.
C1_ThirdAttemptReading ==
    FailsTwiceThenSucceeds =>
        LET data == bus.rd[SHT31_ReadIndex(3)].val
        IN  /\ last.outcome = "return"
            /\ last.err = NoError
            /\ last.value = <<SHT31_temperature(data), SHT31_humidity(data)>>
            /\ last.attempts = 3
            /\ CommandWrites(last.log) = 3
            /\ RetryWaits(last.log) = 2

\* a call whose first two attempts failed on different steps and whose third
\* read answered a block other than the earlier ones
C1_Witness ==
    /\ FailsTwiceThenSucceeds
    /\ SHT31_WriteFault(1) # NoError
    /\ SHT31_WriteFault(2) = NoError
    /\ last.outcome = "return"
    /\ last.value = <<<<-45, 1>>, <<100, 1>>>>

\* C2: when the transport fails in all 3 attempts of one
\* SHT31.get_temperature_humidity() call, the call raises the transport error
\* of the third attempt unchanged, and no fourth attempt is made.
C2_ExhaustionReraises ==
    FailsThreeTimes =>
        /\ last.outcome = "raise"
        /\ last.err = SHT31_AttemptError(3)
        /\ last.attempts = 3
        /\ CommandWrites(last.log) = 3

\* three failed attempts whose last error differs from the first one
C2_Witness ==
    /\ FailsThreeTimes
    /\ SHT31_AttemptError(1) = "OSError"
    /\ SHT31_AttemptError(3) = "TimeoutError"
    /\ last.outcome = "raise"
    /\ last.err = "TimeoutError"

\* C3: in hardware-mode VL6180X construction a transport failure of the
\* reset-check read or of any register write of the initialization sequence,
\* the writes after the retry loop included, makes the whole initialization
\* start again from the reset check, up to 3 attempts: construction fails
\* only after 3 failed attempts.
C3_EveryFailureRetried ==
    (IsInitCall /\ last.outcome = "raise") =>
        Cardinality(ResetChecks(last.log)) = max_retries

\* C4: whenever hardware-mode construction returns normally, the reset check
\* and every register write of the initialization sequence (the tuning
\* writes when the device read as fresh out of reset, and all unconditional
\* writes) completed without transport error in the attempt that succeeded;
\* whenever initialization finally fails, construction raises and no driver
\* instance is obtained.
C4_NeverPartiallyInitialized ==
    IsInitCall =>
        /\ last.outcome = "return" =>
              LET seg  == FinalAttempt(last.log)
                  flag == bus.rd[last.nr].val
              IN  /\ \A i \in 1..Len(seg) : ~Faulted(seg[i])
                  /\ seg[2] = ReadByteEvent(NoError)
                  /\ RegisterWrites(seg) = InitSequence(flag)
        /\ last.outcome = "raise" => vl = "absent"
        /\ vl = "ready" => last.outcome = "return"

\* a fresh device constructed at the third attempt
C4_Witness ==
    /\ IsInitCall
    /\ last.outcome = "return"
    /\ vl = "ready"
    /\ last.attempts = 3
    /\ bus.rd[last.nr].val = 1
    /\ Len(RegisterWrites(FinalAttempt(last.log))) = 46

\* C5: every hardware-mode VL6180X.get_distance() invocation that writes the
\* range-start command (0x01 to 0x0018) also writes the interrupt clear
\* (0x07 to 0x0015) before it returns or raises.
C5_InterruptAlwaysCleared ==
    (/\ IsDistanceCall
     /\ last.log[1] = WriteEvent(COMMAND_SYSRANGE_START, <<1>>, NoError)) =>
        \E i \in 1..Len(last.log) :
            Sends(last.log[i], COMMAND_SYSTEM_INTERRUPT_CLEAR, <<7>>)

\* C6: a successful hardware-mode VL6180X.get_distance() performs exactly
\* these steps in this order: write 0x01 to register 0x0018, sleep 0.1 s,
\* read register 0x0062 once (address write, then read_byte), write 0x07 to
\* register 0x0015; it returns the byte read, unmodified.
C6_DistanceSteps ==
    (IsDistanceCall /\ last.outcome = "return") =>
        /\ last.log = << WriteEvent(COMMAND_SYSRANGE_START, <<1>>, NoError),
                         SleepEvent(100),
                         WriteEvent(COMMAND_RESULT_RANGE_VAL, <<>>, NoError),
                         ReadByteEvent(NoError),
                         WriteEvent(COMMAND_SYSTEM_INTERRUPT_CLEAR, <<7>>, NoError) >>
        /\ last.value = ReadAnswer(1).val

\* a successful measurement of the largest byte
C6_Witness ==
    /\ IsDistanceCall
    /\ last.outcome = "return"
    /\ ReadAnswer(1).val = 255
    /\ last.value = 255

\* C7: VL6180X.get_distance() and VL6180X.get_light() make exactly one
\* attempt per call: the first transport error on any step (start write,
\* result read, interrupt clear) is raised to the caller, nothing is sent
\* after it, and the start command is written once per call.
C7_NoInternalRetry ==
    (IsDistanceCall \/ IsLightCall) =>
        LET e == FirstError(MeasureSteps)
        IN  /\ e # NoError =>
                  /\ last.outcome = "raise"
                  /\ last.err = e
                  /\ Faulted(last.log[Len(last.log)])
                  /\ \A i \in 1..(Len(last.log) - 1) : ~Faulted(last.log[i])
            /\ e = NoError => last.outcome = "return"
            /\ StartWrites(last.log) = 1
            /\ last.nw - last.nw0 <= 3

\* a light measurement whose interrupt clear fails after both reads
C7_Witness ==
    /\ IsLightCall
    /\ last.outcome = "raise"
    /\ WriteFault(3) = "TimeoutError"
    /\ last.err = "TimeoutError"
    /\ last.nw - last.nw0 = 3
    /\ last.nr - last.nr0 = 2

\* C8 as claimed: hardware-mode VL6180X.get_light() with a raw 16-bit ALS
\* result of 3200 returns lux = 1.0.
C8_Raw3200IsOneLux ==
    (IsLightCall /\ last.outcome = "return" /\ LightRaw = 3200) =>
        last.value = RInt(1)

\* C8 as amended: hardware-mode VL6180X.get_light() with a raw 16-bit ALS
\* result of 3200 returns lux = 32.0 (3200 * 0.32 * 100 / 3200).
C8_Raw3200Is32Lux ==
    (IsLightCall /\ last.outcome = "return" /\ LightRaw = 3200) =>
        last.value = RInt(32)

\* a light measurement that read 0x0C then 0x80 and returned
C8_Witness ==
    /\ IsLightCall
    /\ last.outcome = "return"
    /\ ReadAnswer(1).val = 12
    /\ ReadAnswer(2).val = 128
    /\ last.nr - last.nr0 = 2

\* C9: for every raw 16-bit ALS result raw in 0..65535, hardware-mode
\* VL6180X.get_light() returns raw * 0.32 * 100 / (32 * 100), a value lux
\* with 100 * lux = raw (net multiplier 0.01).
C9_LuxIsRawOverHundred ==
    (IsLightCall /\ last.outcome = "return") =>
        /\ LightRaw \in 0..65535
        /\ RMul(RInt(100), last.value) = RInt(LightRaw)
        /\ last.value = Rat(LightRaw, 100)

\* the largest raw result, read as 0xFF 0xFF
C9_Witness ==
    /\ IsLightCall
    /\ last.outcome = "return"
    /\ LightRaw = 65535
    /\ last.value = <<13107, 20>>

\* C10: for all raw byte pairs (hi, lo) in 0..255 the temperature decoded by
\* get_temperature_humidity() (SHT31.py and SHT31_modified.py) from
\* bytes[0] = hi, bytes[1] = lo equals -45 + 175 * (hi * 256 + lo) / 65535; it
\* is strictly smaller than the temperature decoded from the next raw value,
\* equals -45 at raw 0 and 130 at raw 65535.
C10_TemperatureDecoding ==
    (IsSHTCall /\ last.outcome = "return") =>
        LET t == last.value[1]
        IN  /\ t = Rat(175 * TemperatureRaw - 45 * 65535, 65535)
            /\ TemperatureRaw < 65535 =>
                  RLess(t, SHT31_temperature(RawBytes(TemperatureRaw + 1)))
            /\ TemperatureRaw = 0 => t = RInt(-45)
            /\ TemperatureRaw = 65535 => t = RInt(130)

\* the SHT31_modified.py driver decoding the largest raw value
C10_Witness ==
    /\ last.op = "SHT31_modified.get_temperature_humidity"
    /\ last.outcome = "return"
    /\ BlockRead[1] = 255
    /\ BlockRead[2] = 255
    /\ last.value[1] = RInt(130)

\* C11: for all raw byte pairs (hi, lo) in 0..255 the humidity decoded by
\* get_temperature_humidity() (SHT31.py and SHT31_modified.py) from
\* bytes[3] = hi, bytes[4] = lo equals 100 * (hi * 256 + lo) / 65535; it
\* equals 0 at raw 0 and 100 at raw 65535.
C11_HumidityDecoding ==
    (IsSHTCall /\ last.outcome = "return") =>
        LET h == last.value[2]
        IN  /\ HumidityRaw \in 0..65535
            /\ h = Rat(100 * HumidityRaw, 65535)
            /\ HumidityRaw = 0 => h = RInt(0)
            /\ HumidityRaw = 65535 => h = RInt(100)

\* the SHT31.py driver decoding the largest raw humidity, 0xFF 0xFF
C11_Witness ==
    /\ IsSHT31Call
    /\ last.outcome = "return"
    /\ BlockRead[4] = 255
    /\ BlockRead[5] = 255
    /\ last.value[2] = RInt(100)

\* the script b with block d as the answer to its j-th read
WithBlock(b, j, d) == [b EXCEPT !.rd[j] = Ok(d)]

\* scripts that differ from b only in the checksum bytes (bytes 2 and 5) of
\* the block answered to the j-th read
ChecksumVariants(b, j) ==
    { WithBlock(b, j, [b.rd[j].val EXCEPT ![3] = x, ![6] = y]) :
          x \in SampleBytes, y \in SampleBytes }

\* scripts that differ from b only in the data of one block read before the
\* j-th read (an attempt that failed left no data: its read raised or was
\* never made)
EarlierVariants(b, j) ==
    { WithBlock(b, i, d) :
          i \in {i \in 1..(j - 1) : b.rd[i].err = NoError}, d \in SampleBlocks }

\* C12: the (temperature, humidity) pair returned by a hardware-mode
\* get_temperature_humidity() call depends only on bytes 0, 1, 3 and 4 of the
\* block read in the successful attempt: a second run of the call, on a bus
\* that differs only in the checksum bytes 2 and 5 of that block or only in
\* the data read by earlier calls, returns the same pair.  (The driver keeps
\* nothing between calls but the bus, so the second run starts where the
\* first did.)
C12_OnlyDataBytesMatter ==
    (IsSHT31Call /\ last.outcome = "return") =>
        \A b2 \in ChecksumVariants(bus, last.nr) \cup EarlierVariants(bus, last.nr) :
            LET run2 == SHT31_get_temperature_humidity(
                            b2, [nw |-> last.nw0, nr |-> last.nr0])
            IN  /\ run2.outcome = "return"
                /\ run2.nr = last.nr
                /\ run2.value = last.value

\* a call that follows an earlier call's read and succeeds on a retry
C12_Witness ==
    /\ IsSHT31Call
    /\ last.outcome = "return"
    /\ last.attempts > 1
    /\ last.nr0 > 0
    /\ bus.rd[1].err = NoError
    /\ EarlierVariants(bus, last.nr) # {}

IsTemperatureCall == last.op = "SHT31.get_temperature"
IsHumidityCall == last.op = "SHT31.get_humidity"

\* C13: in test mode every reading is within its documented range after any
\* sequence of calls: SHT31 temperature in [15, 35] and humidity in [30, 80];
\* VL6180X distance in [10, 200] and light in [0.1, 10.0].
C13_SimulatedRanges ==
    (test_mode /\ last.outcome = "return") =>
        /\ IsSHT31Call =>
              /\ InRange(last.value[1], RInt(15), RInt(35))
              /\ InRange(last.value[2], RInt(30), RInt(80))
        /\ IsTemperatureCall => InRange(last.value, RInt(15), RInt(35))
        /\ IsHumidityCall => InRange(last.value, RInt(30), RInt(80))
        /\ IsDistanceCall => InRange(last.value, RInt(10), RInt(200))
        /\ IsLightCall => InRange(last.value, Rat(1, 10), RInt(10))

\* the hottest and most humid mock reading, returned by a later call
C13_Witness ==
    /\ test_mode
    /\ IsSHT31Call
    /\ calls > 1
    /\ last.value = <<RInt(35), RInt(80)>>

\* C14: in test mode SHT31.get_temperature_humidity(), get_temperature() and
\* get_humidity() never sleep, perform no bus read or write and never raise,
\* for any number of consecutive calls.
C14_SimulatedMeasureIsImmediate ==
    (test_mode /\ dev = "SHT31") =>
        /\ last.log = <<>>
        /\ pos = [nw |-> 0, nr |-> 0]
        /\ last.outcome # "raise"
        /\ calls > 0 => last.outcome = "return"

\* the last of MaxCalls consecutive test mode measurements
C14_Witness ==
    /\ test_mode
    /\ IsSHT31Call
    /\ calls = MaxCalls
    /\ last.outcome = "return"

\* C15: the construction of a VL6180X in test mode performs no write and no
\* read on the transport and never raises; after any sequence of
\* get_distance, get_light, read, read16, write_byte and write_byte16 calls
\* that follows, the number of transport writes is still zero.
C15_SimulatedNeverWrites ==
    (test_mode /\ dev = "VL6180X") =>
        /\ pos = [nw |-> 0, nr |-> 0]
        /\ last.log = <<>>
        /\ IsInitCall => (last.outcome = "return" /\ vl = "ready")

\* a write_byte16 call made on the test mode instance after two other calls
C15_Witness ==
    /\ test_mode
    /\ vl = "ready"
    /\ last.op = "VL6180X.write_byte16"
    /\ calls = MaxCalls
    /\ pos.nw = 0

\* the register writes a hardware-mode construction makes on a bus that
\* never fails and answers the reset check with flag
ConstructionWrites(flag) ==
    RegisterWrites(VL6180X_init(InitScript(0, {}, flag),
                                [nw |-> 0, nr |-> 0]).log)

\* flag is a reset-check value for which the construction skips the
\* fresh-out-of-reset tuning writes
SkipsTuning(flag) ==
    Len(ConstructionWrites(flag)) = Len(PublicWrites) + Len(PostLoopWrites)

\* C16: in test mode VL6180X.read() of the reset-check register 0x0016
\* returns the value that means already initialized, the value for which the
\* construction skips the fresh-out-of-reset tuning writes; every other test
\* mode register read returns a fixed sentinel (0xFF for read, 0xFFFF for
\* read16).
C16_ResetCheckReadsInitialized ==
    test_mode =>
        /\ last.op = "VL6180X.read" =>
              IF last.arg = COMMAND_SYSTEM_FRESH_OUT_OF_RESET
              THEN SkipsTuning(last.value)
              ELSE last.value = 255
        /\ last.op = "VL6180X.read16" => last.value = 65535

\* the number of attempts the script lets the SHT31 call in last make: up to
\* the first attempt that meets no error, at most max_retries
SHT31_OwnAttempts ==
    LET good == {k \in 1..max_retries : SHT31_AttemptError(k) = NoError}
    IN  IF good = {} THEN max_retries
        ELSE CHOOSE k \in good : \A j \in good : k <= j

CommandWriteEvent(e) ==
    [op |-> "write_i2c_block_data", addr |-> SHT31_ADDRESS,
     reg |-> COMMAND_MEAS_CLKST, data |-> COMMAND_MEAS_MEDREP, err |-> e]

BlockReadEvent(e) ==
    [op |-> "read_i2c_block_data", addr |-> SHT31_ADDRESS,
     reg |-> SHT31_DATA_REGISTER, len |-> SHT31_DATA_LENGTH, err |-> e]

\* the SHT31 call in last exhausted its retries and raised
SHT31_Exhausted ==
    /\ IsSHT31Call
    /\ last.outcome = "raise"
    /\ last.attempts = max_retries

\* the SHT31 call in last began at attempt 0 and had max_retries attempts of
\* its own: no retry wait before its first command write, the 0.5 s settle
\* after it, and as many attempts as its own part of the script asks for
SHT31_StartsAfresh ==
    /\ IsSHT31Call
    /\ Head(last.log) = CommandWriteEvent(SHT31_WriteFault(1))
    /\ SHT31_WriteFault(1) = NoError => last.log[2] = SleepEvent(500)
    /\ last.attempts = SHT31_OwnAttempts
    /\ CommandWrites(last.log) = SHT31_OwnAttempts
    /\ last.outcome =
          IF SHT31_AttemptError(SHT31_OwnAttempts) = NoError
          THEN "return" ELSE "raise"

\* C17: a get_temperature_humidity() call that exhausted its retries and
\* raised leaves the SHT31 instance usable: the next call on the same
\* instance starts again at attempt 0 with the 0.5 s settle and may make up
\* to 3 attempts of its own, whatever the earlier calls consumed.
C17_NextCallStartsAfresh ==
    [][ (SHT31_Exhausted /\ IsSHT31Call') =>
            (/\ last'.nw0 = last.nw
             /\ last'.nr0 = last.nr
             /\ SHT31_StartsAfresh') ]_vars

\* the second call of an instance whose first call met three failed command
\* writes: it fails twice itself and returns from its third attempt
C17_Witness ==
    /\ IsSHT31Call
    /\ calls = 2
    /\ last.nw0 = max_retries
    /\ \A k \in 1..max_retries : k \in DOMAIN bus.wfault
    /\ last.attempts = max_retries
    /\ last.outcome = "return"

\* the trace of attempt k (1, 2, 3) of the SHT31 call in last, as the script
\* dictates it: retry wait, command write, settle sleep, block read
SHT31_AttemptTrace(k) ==
    (IF k > 1 THEN <<SleepEvent(200)>> ELSE <<>>)
        \o <<CommandWriteEvent(SHT31_WriteFault(k))>>
        \o (IF SHT31_WriteFault(k) # NoError THEN <<>>
            ELSE <<SleepEvent(IF k = 1 THEN 500 ELSE 1000),
                   BlockReadEvent(bus.rd[SHT31_ReadIndex(k)].err)>>)

RECURSIVE SHT31_Trace(_)
SHT31_Trace(k) ==
    IF k = 0 THEN <<>> ELSE SHT31_Trace(k - 1) \o SHT31_AttemptTrace(k)

\* C18: within each attempt of a hardware-mode
\* SHT31.get_temperature_humidity() the order is command write, settle
\* sleep, 6-byte block read; the settle sleep is 0.5 s on the first attempt
\* and 1.0 s on every retry, every retry is preceded by a 0.2 s wait, and no
\* block read (and no settle sleep) happens in an attempt whose command
\* write failed.
C18_AttemptOrder ==
    IsSHT31Call =>
        /\ last.attempts \in 1..max_retries
        /\ last.log = SHT31_Trace(last.attempts)

\* three attempts: a failed command write, a failed block read, a success
C18_Witness ==
    /\ IsSHT31Call
    /\ last.attempts = 3
    /\ SHT31_WriteFault(1) # NoError
    /\ SHT31_AttemptError(2) # NoError
    /\ SHT31_WriteFault(2) = NoError
    /\ last.outcome = "return"
    /\ Len(last.log) = 9

\* positions of the trace where an attempt begins: the command write of an
\* SHT31 measurement, the reset check of a VL6180X construction
AttemptStarts(log) ==
    IF IsSHT31Call
    THEN {i \in 1..Len(log) :
              IsBlockWrite(log[i]) /\ log[i].reg = COMMAND_MEAS_CLKST}
    ELSE ResetChecks(log)

\* the wait (ms) inserted before the k-th attempt: the sleep that directly
\* precedes its first bus transaction, 0 if there is none
WaitBefore(log, k) ==
    LET i == CHOOSE x \in AttemptStarts(log) :
                 Cardinality({y \in AttemptStarts(log) : y <= x}) = k
    IN  IF i > 1 /\ log[i - 1].op = "sleep" THEN log[i - 1].ms ELSE 0

\* the call in last is a retry loop that went into its third attempt
ThreeAttempts ==
    /\ IsSHT31Call \/ IsInitCall
    /\ Cardinality(AttemptStarts(last.log)) = max_retries

\* C19: the backoff between retry attempts is increasing: in an SHT31
\* measurement and in a VL6180X initialization the wait inserted before the
\* third attempt is strictly longer than the wait inserted before the second.
C19_BackoffIncreases ==
    ThreeAttempts => WaitBefore(last.log, 3) > WaitBefore(last.log, 2)

\* C19 (amended): the backoff between retry attempts is constant: the wait
\* inserted before the third attempt equals the wait inserted before the
\* second, 0.2 s in an SHT31 measurement and 0.5 s in a VL6180X
\* initialization; no wait precedes the first attempt.
C19_BackoffConstant ==
    ThreeAttempts =>
        /\ WaitBefore(last.log, 1) = 0
        /\ WaitBefore(last.log, 2) = (IF IsSHT31Call THEN 200 ELSE 500)
        /\ WaitBefore(last.log, 3) = WaitBefore(last.log, 2)

\* a VL6180X construction that returned from its third attempt
C19_Witness ==
    /\ IsInitCall
    /\ ThreeAttempts
    /\ last.outcome = "return"
    /\ WaitBefore(last.log, 3) = 500

\* a transport that never fails
NeverFails ==
    /\ DOMAIN bus.wfault = {}
    /\ \A j \in 1..Len(bus.rd) : bus.rd[j].err = NoError

IsWrapperCall == IsTemperatureCall \/ IsHumidityCall

BlockReads(log) ==
    Cardinality({i \in 1..Len(log) : log[i].op = "read_i2c_block_data"})

\* what the wrapper call in last returns if it decodes the j-th block read
WrapperValue(j) ==
    IF IsTemperatureCall
    THEN SHT31_temperature(bus.rd[j].val)
    ELSE SHT31_humidity(bus.rd[j].val)

\* C20: every call of SHT31.get_temperature() or SHT31.get_humidity()
\* triggers its own hardware measurement: on a transport that never fails,
\* n calls issue exactly n command writes and n block reads, and a wrapper
\* call returns the value decoded from the block it read itself, never a
\* value obtained by an earlier call.
C20_WrapperMeasuresAfresh ==
    (dev = "SHT31" /\ ~test_mode /\ NeverFails) =>
        /\ pos.nw = calls
        /\ pos.nr = calls
        /\ IsWrapperCall =>
              /\ last.outcome = "return"
              /\ CommandWrites(last.log) = 1
              /\ BlockReads(last.log) = 1
              /\ last.value = WrapperValue(calls)
              /\ \A j \in 1..(calls - 1) : last.value # WrapperValue(j)

\* the third call in a row on a transport that never fails, a get_humidity()
C20_Witness ==
    /\ NeverFails
    /\ IsHumidityCall
    /\ calls = 3
    /\ pos.nw = 3
    /\ pos.nr = 3
    /\ last.value = SHT31_humidity(SeqBlock(3))

DebugExited == dbg.pc = "exited"

\* C21: each driver's debug entry point exits cleanly when interrupted by
\* Ctrl-C, and on any other failure it logs remediation hints and terminates
\* with a non-zero exit status.  (The exits of the argument parser are
\* left out: the usage error and -h are no failure of the entry point.)
C21_DebugExitStatus ==
    (DebugExited /\ dbg.cause # "SystemExit") =>
        IF dbg.cause = "KeyboardInterrupt"
        THEN dbg.caught /\ dbg.status = 0
        ELSE dbg.hints /\ dbg.status # 0

\* C22: the debug entry points catch every error at the top level: an error
\* raised while constructing the driver or while measuring is caught inside
\* debug(), answered by the remediation log, and followed by termination
\* without any further measurement attempt.
C22_DebugCatchesEveryError ==
    (DebugExited /\ dbg.cause \in Errors) =>
        /\ dbg.caught
        /\ dbg.hints
        /\ pos = [nw |-> dbg.nw, nr |-> dbg.nr]

IsRegisterAccess ==
    last.op \in {"VL6180X.read", "VL6180X.read16",
                 "VL6180X.write_byte", "VL6180X.write_byte16"}

\* the address bytes the block write ev puts on the bus, in order: the
\* command byte of write_i2c_block_data, then the first data byte
AddressBytes(ev) == <<ev.reg, ev.data[1]>>

\* C23: for every 16-bit register address r, VL6180X.read, read16,
\* write_byte and write_byte16 (hardware mode) transmit r as high byte
\* (r >> 8) & 0xFF followed by low byte r & 0xFF, so that
\* high * 256 + low = r; a read is a block write of the two address bytes
\* followed by a separate byte read (two for read16), and write_byte masks
\* the data to 8 bits (write_byte16 sends the high data byte, then the low).
C23_AddressSplit ==
    (IsRegisterAccess /\ ~test_mode) =>
        LET w == Head(last.log)
            a == AddressBytes(w)
            payload == Tail(w.data)
        IN  /\ IsBlockWrite(w)
            /\ w.addr = VL6180X_ADDRESS
            /\ a[1] \in Byte
            /\ a[2] \in Byte
            /\ a[1] * 256 + a[2] = last.arg
            /\ last.op = "VL6180X.read" =>
                  /\ payload = <<>>
                  /\ Tail(last.log) = <<ReadByteEvent(NoError)>>
                  /\ last.value = bus.rd[1].val
            /\ last.op = "VL6180X.read16" =>
                  /\ payload = <<>>
                  /\ Tail(last.log) =
                        <<ReadByteEvent(NoError), ReadByteEvent(NoError)>>
                  /\ last.value = bus.rd[1].val * 256 + bus.rd[2].val
            /\ last.op = "VL6180X.write_byte" =>
                  /\ payload = <<last.data % 256>>
                  /\ Len(last.log) = 1
            /\ last.op = "VL6180X.write_byte16" =>
                  /\ payload = <<(last.data \div 256) % 256, last.data % 256>>
                  /\ Len(last.log) = 1

\* write_byte(0xABCD, 0x107): address bytes 0xAB 0xCD, data byte 0x07
C23_Witness ==
    /\ last.op = "VL6180X.write_byte"
    /\ ~test_mode
    /\ last.arg = 43981
    /\ last.data = 263
    /\ Head(last.log).reg = 171
    /\ Head(last.log).data = <<205, 7>>

\* the k-th smallest element of the set of positions S
Nth(S, k) == CHOOSE x \in S : Cardinality({y \in S : y <= x}) = k

\* the part of the trace of a construction that belongs to its k-th
\* attempt: from the k-th reset check up to the next one
AttemptSegment(log, k) ==
    LET S == ResetChecks(log)
    IN  SubSeq(log, Nth(S, k),
               IF k < Cardinality(S) THEN Nth(S, k + 1) - 1 ELSE Len(log))

IsReadByte(ev) == ev.op = "read_byte"

\* what the device answers to the k-th reset check of the construction in
\* last (each earlier read_byte of the trace took one answer of the script)
ResetFlag(log, k) ==
    LET i == Nth(ResetChecks(log), k)
        n == Cardinality({j \in 1..i : IsReadByte(log[j])})
    IN  bus.rd[last.nr0 + n + 1]

IsPrefix(s, t) == Len(s) <= Len(t) /\ s = SubSeq(t, 1, Len(s))

NoFault(log) == \A i \in 1..Len(log) : ~Faulted(log[i])

\* C24: in each hardware-mode VL6180X initialization attempt the
\* reset-check register 0x0016 is read exactly once, before any register
\* write; if it reads 1 the 30 private tuning registers (0x0207 ... 0x0030)
\* are written in program order before any unconditional write, otherwise
\* none of them is written; on a transport that never fails the construction
\* performs 46 register writes for a fresh device and 16 otherwise.
C24_ResetCheckThenTuning ==
    (IsInitCall /\ ~test_mode) =>
        LET log == last.log
        IN  /\ 1 \in ResetChecks(log)
            /\ \A k \in 1..Cardinality(ResetChecks(log)) :
                  LET seg == AttemptSegment(log, k)
                      ws  == RegisterWrites(seg)
                  IN  /\ Len(SelectSeq(seg, IsReadByte)) <= 1
                      /\ IF Faulted(seg[1])
                         THEN ws = <<>> /\ SelectSeq(seg, IsReadByte) = <<>>
                         ELSE /\ IsReadByte(seg[2])
                              /\ IF Faulted(seg[2]) THEN ws = <<>>
                                 ELSE IsPrefix(ws,
                                          InitSequence(ResetFlag(log, k).val))
            /\ NoFault(log) =>
                  /\ last.outcome = "return"
                  /\ Cardinality(ResetChecks(log)) = 1
                  /\ IF ResetFlag(log, 1).val = 1
                     THEN /\ Len(RegisterWrites(log)) = 46
                          /\ RegisterWrites(log)[1][1] = 519
                          /\ RegisterWrites(log)[30][1] = 48
                          /\ RegisterWrites(log)[31] = <<17, <<16>> >>
                     ELSE /\ Len(RegisterWrites(log)) = 16
                          /\ RegisterWrites(log)[1] = <<17, <<16>> >>

\* a fresh device constructed on a transport that never fails
C24_Witness ==
    /\ IsInitCall
    /\ ~test_mode
    /\ NoFault(last.log)
    /\ ResetFlag(last.log, 1).val = 1
    /\ Len(RegisterWrites(last.log)) = 46
    /\ last.outcome = "return"

\* positions of the trace where 0x00 is written to the reset-check register
FlagClears(log) ==
    {i \in 1..Len(log) :
         Sends(log[i], COMMAND_SYSTEM_FRESH_OUT_OF_RESET, <<0>>)}

\* the script is a device whose fresh-out-of-reset flag reads 1 at every
\* reset check
FlagStaysSet == \A j \in 1..Len(bus.rd) : bus.rd[j].val = 1 \/ bus.rd[j].err # NoError

\* the register writes the trace holds up to position i
WritesUpTo(log, i) == RegisterWrites(SubSeq(log, 1, i))

\* the last data written to register16 in the trace (<<>> if never)
LastWritten(log, register16) ==
    LET ws == RegisterWrites(SelectSeq(log, IsRegisterWrite))
        S  == {i \in 1..Len(ws) : ws[i][1] = register16}
    IN  IF S = {} THEN <<>>
        ELSE ws[CHOOSE i \in S : \A j \in S : j <= i][2]

\* C25: the fresh-out-of-reset flag is cleared (0x00 written to register
\* 0x0016) only after the retry loop has succeeded, never inside a retried
\* attempt: on a device whose flag stays 1 until cleared, every retried
\* initialization attempt reads the flag as 1 again and repeats the tuning
\* writes from the first one, and after a successful construction the last
\* value written to 0x0016 is 0x00.
C25_FlagClearedAfterLoop ==
    (IsInitCall /\ ~test_mode /\ FlagStaysSet) =>
        LET log == last.log
            n   == Cardinality(ResetChecks(log))
            fin == AttemptSegment(log, n)
        IN  /\ \A i \in FlagClears(log) :
                  /\ \A c \in ResetChecks(log) : c < i
                  /\ \A j \in 1..(i - 1) :
                        j >= Nth(ResetChecks(log), n) => ~Faulted(log[j])
                  /\ Len(WritesUpTo(log, i)) - Len(WritesUpTo(log, Nth(ResetChecks(log), n)))
                        = 30 + 4 + 6
            /\ \A k \in 1..n :
                  LET seg == AttemptSegment(log, k)
                  IN  (Len(seg) >= 2 /\ IsReadByte(seg[2]) /\ ~Faulted(seg[2])) =>
                          /\ ResetFlag(log, k).val = 1
                          /\ RegisterWrites(seg) # <<>> =>
                                RegisterWrites(seg)[1] = <<519, <<1>> >>
                          /\ IsPrefix(RegisterWrites(seg), InitSequence(1))
            /\ last.outcome = "return" =>
                  /\ Cardinality(FlagClears(log)) = 1
                  /\ LastWritten(log, COMMAND_SYSTEM_FRESH_OUT_OF_RESET) = <<0>>

\* a fresh device constructed in the third attempt, after two attempts that
\* failed in the middle of their writes
C25_Witness ==
    /\ IsInitCall
    /\ ~test_mode
    /\ FlagStaysSet
    /\ Cardinality(ResetChecks(last.log)) = 3
    /\ \A k \in 1..2 : Len(RegisterWrites(AttemptSegment(last.log, k))) > 1
    /\ last.outcome = "return"
    /\ LastWritten(last.log, COMMAND_SYSTEM_FRESH_OUT_OF_RESET) = <<0>>

IsStoredWrite(ev) == IsRegisterWrite(ev) /\ ~Faulted(ev)

\* a device that stores what is written: the byte held at address a after
\* the trace, the bytes of one write going to consecutive addresses from the
\* register address on (-1: never written).  keep tells whether a write
\* whose transaction raised was stored all the same.
Held(log, a, keep) ==
    LET ws == RegisterWrites(IF keep THEN SelectSeq(log, IsRegisterWrite)
                                     ELSE SelectSeq(log, IsStoredWrite))
        S  == {i \in 1..Len(ws) : a - ws[i][1] \in 0..(Len(ws[i][2]) - 1)}
    IN  IF S = {} THEN -1
        ELSE LET i == CHOOSE x \in S : \A y \in S : y <= x
             IN  ws[i][2][a - ws[i][1] + 1]

\* the trace holds a write of data to register16 that a later write to the
\* same register follows
Overwritten(log, register16, data) ==
    LET ws == RegisterWrites(log)
    IN  \E i, j \in 1..Len(ws) :
            /\ i < j
            /\ ws[i] = <<register16, data>>
            /\ ws[j][1] = register16

\* C26: registers written more than once during VL6180X initialization end
\* with the value of the last write: after a successful construction on a
\* device that stores what is written, register 0x003F holds 0x20 (the
\* earlier 0x46 is overwritten) and the 16-bit write of 0x0064 at 0x0040
\* leaves 0x0040 = 0x00 and 0x0041 = 0x64 (the earlier byte 0x63 at 0x0040
\* is overwritten).
C26_LastWriteWins ==
    (IsInitCall /\ ~test_mode /\ last.outcome = "return") =>
        /\ \A keep \in BOOLEAN :
              /\ Held(last.log, 63, keep) = 32
              /\ Held(last.log, 64, keep) = 0
              /\ Held(last.log, 65, keep) = 100
        /\ Overwritten(last.log, 63, <<70>>)
        /\ Overwritten(last.log, 64, <<99>>)

\* a construction that succeeds in a retried attempt, the failed attempt
\* having written 0x46 to 0x003F already
C26_Witness ==
    /\ IsInitCall
    /\ ~test_mode
    /\ last.outcome = "return"
    /\ Cardinality(ResetChecks(last.log)) >= 2
    /\ \E i \in 1..Len(last.log) :
          /\ Sends(last.log[i], 63, <<70>>)
          /\ \E c \in ResetChecks(last.log) : i < c
    /\ Held(last.log, 65, FALSE) = 100

IsRetryLoop ==
    /\ last.op \in {"SHT31.get_temperature_humidity", "VL6180X.__init__"}
    /\ ~test_mode

IsRead(ev) == ev.op \in {"read_i2c_block_data", "read_byte"}

\* what the script answered to the read at position i of the trace of last
AnswerAt(i) ==
    bus.rd[last.nr0 + Len(SelectSeq(SubSeq(last.log, 1, i), IsRead))]

\* the exception that the step at position i of the trace raised inside the
\* driver: the error of the transaction, or IndexError when the SHT31
\* decodes a block of fewer than 5 bytes
RaisedAt(i) ==
    LET ev == last.log[i]
    IN  IF ev.op = "sleep" THEN NoError
        ELSE IF ev.err # NoError THEN ev.err
        ELSE IF ev.op = "read_i2c_block_data" /\ Len(AnswerAt(i).val) < 5
             THEN IndexError
        ELSE NoError

\* C27: only transport errors (OSError, TimeoutError) are retried: an error
\* of any other kind raised during an attempt of
\* SHT31.get_temperature_humidity() or of VL6180X initialization (for
\* example a block read that returns fewer than 5 bytes) propagates to the
\* caller at once, without a further attempt.
C27_OnlyTransportErrorsRetried ==
    IsRetryLoop =>
        \A i \in 1..Len(last.log) :
            LET e == RaisedAt(i)
            IN  /\ (e # NoError /\ e \notin Errors) =>
                      /\ i = Len(last.log)
                      /\ last.outcome = "raise"
                      /\ last.err = e
                      /\ last.attempts =
                            1 + Cardinality({j \in 1..(i - 1) : RaisedAt(j) # NoError})
                /\ (e \in Errors /\ i < Len(last.log)) =>
                      /\ last.log[i + 1].op = "sleep"
                      /\ last.attempts > 
                            1 + Cardinality({j \in 1..(i - 1) : RaisedAt(j) # NoError})

\* a measurement whose first attempt met a transport error and was retried,
\* and whose second attempt read a short block: the IndexError leaves the
\* method although an attempt remains
C27_Witness ==
    /\ last.op = "SHT31.get_temperature_humidity"
    /\ ~test_mode
    /\ last.outcome = "raise"
    /\ last.err = IndexError
    /\ last.attempts = 2
    /\ \E i \in 1..Len(last.log) : RaisedAt(i) \in Errors

\* where the call in last started
From == [nw |-> last.nw0, nr |-> last.nr0]

Outcome(res) == [f \in {"outcome", "value", "err", "attempts", "log", "nw", "nr"} |-> last[f]] = res

\* the first command write and the first block read of the call in last
\* both succeed
FirstAttemptSucceeds ==
    /\ WriteFault(1) = NoError
    /\ ReadAnswer(1).err = NoError

\* C28: on a transport that never fails, get_temperature_humidity() of
\* SHT31.py and of SHT31_modified.py are equivalent up to the command
\* argument byte: both perform one block write to command register 0x2C, a
\* 0.5 s settle and one 6-byte block read at 0x00, and return the same
\* (temperature, humidity) for the same raw bytes; they differ only in the
\* argument written (0x10 versus 0x06) and, once the transport fails, in
\* that SHT31_modified.py makes a single attempt.
C28_EquivalentUpToArgument ==
    (/\ last.op \in {"SHT31.get_temperature_humidity",
                     "SHT31_modified.get_temperature_humidity"}
     /\ ~test_mode
     /\ last.nr0 + max_retries <= Len(bus.rd)) =>
        LET a == SHT31_get_temperature_humidity(bus, From)
            m == SHT31mod_get_temperature_humidity(bus, From)
        IN  /\ Outcome(IF last.op = "SHT31.get_temperature_humidity"
                        THEN a ELSE m)
            /\ FirstAttemptSucceeds =>
                  /\ a.log = << [op |-> "write_i2c_block_data", addr |-> 68,
                                 reg |-> 44, data |-> <<16>>, err |-> NoError],
                                [op |-> "sleep", ms |-> 500],
                                [op |-> "read_i2c_block_data", addr |-> 68,
                                 reg |-> 0, len |-> 6, err |-> NoError] >>
                  /\ m.log = [a.log EXCEPT ![1].data = <<6>>]
                  /\ m.outcome = "return" /\ a.outcome = "return"
                  /\ m.value = a.value
                  /\ m.attempts = 1 /\ a.attempts = 1
                  /\ m.nw = a.nw /\ m.nr = a.nr
            /\ ~FirstAttemptSucceeds =>
                  /\ m.outcome = "raise"
                  /\ m.attempts = 1
                  /\ m.err = (IF WriteFault(1) # NoError THEN WriteFault(1)
                                                        ELSE ReadAnswer(1).err)
                  /\ Len(SelectSeq(m.log, IsBlockWrite)) = 1
                  /\ a.attempts > 1
                  /\ Len(SelectSeq(a.log, IsBlockWrite)) = a.attempts
                  /\ [SubSeq(a.log, 1, Len(m.log)) EXCEPT ![1].data = <<6>>] = m.log

\* a measurement by SHT31_modified.py on a bus that never fails, returning
\* what SHT31.py returns on it
C28_Witness ==
    /\ last.op = "SHT31_modified.get_temperature_humidity"
    /\ ~test_mode
    /\ last.nr0 = 0
    /\ bus.wfault = <<>>
    /\ \A j \in 1..Len(bus.rd) : bus.rd[j].err = NoError
    /\ last.outcome = "return"
    /\ last.value = SHT31_get_temperature_humidity(bus, From).value
    /\ last.value[1] # RInt(-45)

=============================================================================
